---- MODULE Spec2Model ----
(***************************************************************************)
(* A model of the channel router (routing/router.go) and of the UTXO       *)
(* sweeper (sweep/sweeper.go).  Each component has its own specification:  *)
(*   SweeperSpec  - the sweeper's collector loop and its callers           *)
(*   ChainSpec    - the router's handling of new and stale blocks          *)
(*   GossipSpec   - the router's parallel processing of graph updates      *)
(*   PaymentsSpec - the router's payments, new and resumed at Start        *)
(*   StaleSpec    - IsStaleEdgePolicy and UpdateEdge over one graph state  *)
(*   ClassifySpec - processSendError on the failure of a payment attempt   *)
(*   RouteSpec    - SendToRoute from InitPayment to its return             *)
(*   ShutdownSpec - AddNode, AddEdge and UpdateEdge over a router that     *)
(*                  stops, with fairness                                   *)
(*   StopSpec     - the calls of Stop of the router and of the sweeper     *)
(*   SyncSpec     - syncGraphWithChain at the router's Start, with         *)
(*                  fairness                                               *)
(*   AccessSpec   - the sweeper with PendingInputs and CreateSweepTx       *)
(*   BucketSpec   - the sweeper's clustering under several relay fee rates *)
(*   ZombieSpec   - pruneZombieChans at Start and at the prune ticker      *)
(*   AddEdgeSpec  - processUpdate on channel announcements                 *)
(*   StartSpec    - the calls of Start of the router and of the sweeper    *)
(* The variables of the other components stay unchanged under each one.    *)
(***************************************************************************)
EXTENDS Integers, Sequences, FiniteSets, TLC

(***************************************************************************)
(* Bounds of the sweeper model.                                            *)
(***************************************************************************)
NumOutPoints == 2          \* outpoints offered for sweeping: 1..NumOutPoints
MaxResultChans == 2        \* SweepInput calls (each makes one result channel)
MaxBlocks == 1             \* block epochs delivered after Start
MaxSweepAttempts == 2      \* cfg.MaxSweepAttempts
MaxInputsPerTx == 2        \* cfg.MaxInputsPerTx
MaxRelayFeeRate == 3       \* relay fee rates of the clustering runs: 0..MaxRelayFeeRate

(***************************************************************************)
(* Bounds of the router model.                                             *)
(***************************************************************************)
MaxChainBlocks == 3        \* block heights above the height at Start
MaxStoreErrors == 1        \* failing calls of the graph store
MaxJobs == 3               \* graph updates handed to the networkHandler
BarrierSlots == 2          \* jobs the validation barrier admits at a time
NumHashes == 2             \* payment hashes
MaxLifecycles == 3         \* payment calls and resumed payments
MaxRoutes == 2             \* routes a payment session yields
MaxNewPaymentIDs == 2      \* payment ids handed out by NextPaymentID

(***************************************************************************)
(* Program constants.                                                      *)
(***************************************************************************)
DefaultMaxFeeRate == 2500000
DefaultFeeRateBucketSize == 10
StartHeight == 100         \* ChainIO.GetBestBlock at Start (mockChainIOHeight)
SourcePubKey == 1          \* the self node (r.selfNode.PubKeyBytes)

\* the time of the calls, and cfg.ChannelPruneExpiry
Now == 3

ChannelPruneExpiry == 1

OutPoints == 1..NumOutPoints
FeePreferences == {10, 12} \* absolute fee rates asked for by callers
RelayFeeRates == {1}       \* FeeEstimator.RelayFeePerKW()

Channels == 1..4           \* the channels of the graph
\* the heights of the blocks the chain view reports
BlockHeights == StartHeight + 1 .. StartHeight + MaxChainBlocks
\* the funding outpoints a block spends: those of at most one channel
SpentOutputs == {{}} \cup {{c} : c \in Channels}
ClientIDs == {1}
GossipChannels == {1}      \* channel ids named by graph updates
Directions == {1, 2}       \* ChannelFlags direction bit 0 / 1: edge1 / edge2
Timestamps == {1, 2}       \* LastUpdate of policies; 0 = no policy stored
Hashes == 1..NumHashes
PaymentIDs == 1..NumHashes + MaxNewPaymentIDs

VARIABLES
    \* ---- sweeper (sweep/sweeper.go) ----
    started,             \* UtxoSweeper.started
    stopped,             \* UtxoSweeper.stopped
    quit,                \* UtxoSweeper.quit is closed
    collector,           \* the loop goroutine: "none", "running", "exited", "hung", "panic"
    pendingInputs,       \* UtxoSweeper.pendingInputs: outpoint -> pendingInput
    timer,               \* UtxoSweeper.timer # nil
    currentOutputScript, \* UtxoSweeper.currentOutputScript (0 = nil)
    relayFeeRate,        \* UtxoSweeper.relayFeeRate
    bestHeight,          \* collector's bestHeight
    inputClusters,       \* timer case: clusters still to be swept
    inputLists,          \* timer case: input sets of the current cluster still to be swept
    sweepFeeRate,        \* timer case: the current cluster's sweep fee rate
    store,               \* SweeperStore: transactions recorded by NotifyPublishTx
    lastTx,              \* SweeperStore.GetLastPublishedTx (NoTx = nil)
    published,           \* transactions handed to PublishTransaction
    ntfnReg,             \* outpoints whose waitForSpend goroutine is waiting
    resultChans,         \* result channels: every Result sent on each
    republished,         \* PublishTransaction calls made by Start
    publishErrors,       \* per pending outpoint: its publishes that returned an error,
                         \* counted up to MaxSweepAttempts
    blocks,              \* block epochs delivered so far
    batchTimers,         \* timers made by NewBatchTimer that have not expired
    batchRates,          \* the sweep fee rates of the transactions handed to
                         \* PublishTransaction since the latest timer expiry
    batchInputs,         \* per outpoint, its publishAttempts at the latest timer
                         \* expiry and the transactions spending it handed to
                         \* PublishTransaction since
    startCall,           \* Start: the transaction it fetched, what its
                         \* publish returned, the call that failed and what
                         \* Start returned
    accessed,            \* the fields of the UtxoSweeper read and written so
                         \* far, each with the goroutine that did so
    \* ---- router (routing/router.go) ----
    routerStarted,       \* ChannelRouter.started
    routerStopped,       \* ChannelRouter.stopped
    routerQuit,          \* ChannelRouter.quit is closed
    networkHandler,      \* the networkHandler goroutine: "none", "running", "exited"
    routerBestHeight,    \* ChannelRouter.bestHeight
    pruneTip,            \* graph store: height of the prune tip (0 = never pruned)
    closedAt,            \* graph store: per channel, 0 if it is in the graph, else
                         \* the height of the block whose pruning closed it
    topologyClients,     \* ChannelRouter.topologyClients
    lastTopologyChange,  \* the closed channels of the latest notifyTopologyChange
    outOfOrderBlock,     \* height of the latest block logged as out of order (0 = none)
    reorg,               \* the block events handled so far, while they follow the
                         \* reorg scenario
    storeErrors,         \* calls of the graph store that have failed
    jobs,                \* the graph updates handed over, in order, each with the
                         \* position of its goroutine and the error it returned
    chanAnnFinSignal,    \* validation barrier: channel ids with an open signal
    channelEdgeMtx,      \* ChannelRouter.channelEdgeMtx: per channel id the job
                         \* holding the mutex (0 = free)
    edgeExists,          \* graph store: the channel ids with an edge
    edgeTimestamps,      \* graph store: per channel id the timestamps of the
                         \* policies of edge1 and edge2
    written,             \* per channel id and direction: the timestamps handed
                         \* to UpdateEdgePolicy, in order
    control,             \* cfg.Control, the control tower: per payment hash the
                         \* status and the payment id of the registered attempt
    htlcs,               \* cfg.Payer, the dispatcher: the HTLCs in flight, each
                         \* with its payment id and hash
    nextPaymentID,       \* cfg.NextPaymentID: the id handed out next
    lifecycles,          \* the payment calls and resumed payments, each with
                         \* its position and what it has done so far
    zombieIndex,         \* graph store: the channel ids marked as zombies
    assumeChannelValid,  \* cfg.AssumeChannelValid
    staleQuery,          \* the call of IsStaleEdgePolicy made, with its answer
    apiCalls,            \* the calls of AddNode, AddEdge and UpdateEdge, each
                         \* with its position and what it returned
    blockStreams,        \* the newBlocks and staleBlocks channels of the chain
                         \* view: "open" or "closed"
    fwdError,            \* the route of the failed attempt and its
                         \* ForwardingError
    classifier,          \* processSendError: its position, what
                         \* applyChannelUpdate said and what it returns
    reports,             \* the reports made to the payment session
    sends,               \* the SendHTLC calls of the payment
    stopCalls,           \* the Stop calls of the router and of the sweeper,
                         \* each with its position and what it returned
    quitCloses,          \* per component, the close(quit) statements run
    channelGraph,        \* graph store: per channel id its two node keys and
                         \* its two policies, as ForEachChannel hands them out
    zombieRun,           \* the latest run of pruneZombieChans: the graph it
                         \* examined and the error it returned
    startReturns,        \* per component, what its Start calls have returned,
                         \* in order (Start taken as one step)
    chainTip,            \* cfg.Chain: the height of the best block
    pruneLog,            \* graph store: the blocks pruned, each with its
                         \* height and the branch its hash is on
    sync                 \* Start from its call of syncGraphWithChain on:
                         \* its position, the best block and the prune tip
                         \* it has read, and what it returns

sweeperVars == <<started, stopped, quit, collector, pendingInputs, timer,
                 currentOutputScript, relayFeeRate, bestHeight, inputClusters,
                 inputLists, sweepFeeRate, store, lastTx, published,
                 ntfnReg, resultChans, republished, publishErrors,
                 blocks, batchTimers, batchRates, batchInputs, startCall, accessed>>

lifeVars == <<routerStarted, routerStopped, routerQuit, networkHandler>>

chainVars == <<routerBestHeight, pruneTip, closedAt, topologyClients,
               lastTopologyChange, outOfOrderBlock, reorg, storeErrors>>

gossipVars == <<jobs, chanAnnFinSignal, channelEdgeMtx, edgeExists,
                edgeTimestamps, written>>

payVars == <<control, htlcs, nextPaymentID, lifecycles>>

queryVars == <<zombieIndex, assumeChannelValid, staleQuery>>

callVars == <<apiCalls, blockStreams>>

classVars == <<fwdError, classifier, reports, sends>>

stopVars == <<stopCalls, quitCloses>>

syncVars == <<chainTip, pruneLog, sync>>

zombieVars == <<channelGraph, zombieRun>>

startVars == <<startReturns>>

routerVars == <<lifeVars, chainVars, gossipVars, payVars, queryVars, callVars,
                classVars, stopVars, syncVars, zombieVars, startVars>>

\* what the actions of one part of the router leave alone
exceptChain == <<sweeperVars, gossipVars, payVars, queryVars, callVars,
                 classVars, stopVars, syncVars, zombieVars, startVars>>
exceptGossip == <<sweeperVars, chainVars, payVars, queryVars, callVars,
                  classVars, stopVars, syncVars, zombieVars, startVars>>
exceptPayments == <<sweeperVars, chainVars, gossipVars, queryVars, callVars,
                    classVars, stopVars, syncVars, zombieVars, startVars>>

vars == <<sweeperVars, routerVars>>

(***************************************************************************)
(* The router's initial state (New): nothing started, the graph store      *)
(* holding every channel and never pruned.                                 *)
(***************************************************************************)
NoEvents == <<>>

NoError == [kind |-> "none"]

NoEdge == [from |-> 0, to |-> 0, channel |-> 0]

ClassifierIdle == [pc |-> "idle",
                   failed |-> [edge |-> NoEdge, amt |-> 0, err |-> "none"],
                   call |-> 0, updateOk |-> TRUE, terminal |-> FALSE]

\* the components with a Stop method
Components == {"router", "sweeper"}

\* Start has not reached syncGraphWithChain
SyncIdle == [pc |-> "idle", bestHeight |-> 0, pruneHeight |-> 0,
             nextHeight |-> 0, disconnected |-> 0, err |-> "none"]

\* a graph store without channels
NoChannels == <<>>

\* pruneZombieChans has not run
NoRun == [graph |-> NoChannels, err |-> "none"]

NoQuery == [chanID |-> 0, dir |-> 0, timestamp |-> 0, disabled |-> FALSE,
            stale |-> FALSE]

\* the router from New, whatever its graph store holds and has pruned
RouterUnsynced ==
    /\ routerStarted = FALSE
    /\ routerStopped = FALSE
    /\ routerQuit = FALSE
    /\ networkHandler = "none"
    /\ routerBestHeight = 0
    /\ closedAt = [c \in Channels |-> 0]
    /\ topologyClients = {}
    /\ lastTopologyChange = {}
    /\ outOfOrderBlock = 0
    /\ reorg = NoEvents
    /\ storeErrors = 0
    /\ jobs = <<>>
    /\ chanAnnFinSignal = {}
    /\ channelEdgeMtx = [c \in GossipChannels |-> 0]
    /\ written = [c \in GossipChannels |-> [d \in Directions |-> <<>>]]
    /\ lifecycles = <<>>
    /\ staleQuery = NoQuery
    /\ apiCalls = <<>>
    /\ blockStreams = "open"
    /\ fwdError = NoError
    /\ classifier = ClassifierIdle
    /\ reports = <<>>
    /\ sends = 0
    /\ stopCalls = <<>>
    /\ quitCloses = [c \in Components |-> 0]
    /\ chainTip = StartHeight
    /\ sync = SyncIdle
    /\ zombieRun = NoRun
    /\ startReturns = [c \in Components |-> <<>>]

\* PruneTip answers ErrGraphNeverPruned
GraphNeverPruned == pruneTip = 0 /\ pruneLog = <<>>

\* the router from New over a graph store never pruned
RouterUnpruned == RouterUnsynced /\ GraphNeverPruned

\* the router from New, whatever its graph store answers about the channels
\* of the gossip, with no channel for ForEachChannel to hand out
RouterIdle == RouterUnpruned /\ channelGraph = NoChannels

\* the router from New over an empty graph, validating channels
RouterNew ==
    /\ RouterIdle
    /\ edgeExists = {}
    /\ edgeTimestamps = [c \in GossipChannels |-> [d \in Directions |-> 0]]
    /\ zombieIndex = {}
    /\ assumeChannelValid = FALSE

\* what the control tower has stored of a payment hash
NoPayment == [status |-> "none", attempt |-> 0]

InFlightPayment(attempt) == [status |-> "InFlight", attempt |-> attempt]

\* a router whose control tower knows no payment
RouterInit ==
    /\ RouterNew
    /\ control = [h \in Hashes |-> NoPayment]
    /\ htlcs = {}
    /\ nextPaymentID = NumHashes + 1

(***************************************************************************)
(* Zombie pruning over the channels of the graph store.  ForEachChannel    *)
(* hands each channel to filterPruneChans with its two node keys and its   *)
(* two policies, either of which may be nil; DeleteChannelEdges removes    *)
(* the channels collected.  The run is made by Start under                 *)
(* AssumeChannelValid and by the networkHandler at each tick of the        *)
(* graphPruneTicker.                                                       *)
(***************************************************************************)
MaxPruneChans == 2         \* channels the graph store holds at New

PruneChanIDs == 1..MaxPruneChans

\* LastUpdate of a policy: older than, exactly, and younger than
\* ChannelPruneExpiry at the time of the run
LastUpdates == {Now - ChannelPruneExpiry - 1, Now - ChannelPruneExpiry, Now}

NilPolicy == [nil |-> TRUE, LastUpdate |-> 0, disabled |-> FALSE]

ChannelEdgePolicies ==
    {NilPolicy} \cup
    [nil : {FALSE}, LastUpdate : LastUpdates, disabled : BOOLEAN]

\* the node keys of a channel: the self node first, second, or not at all
NodeKeyPairs == {<<SourcePubKey, 2>>, <<2, SourcePubKey>>, <<2, 3>>}

ChannelEdges ==
    {[NodeKey1 |-> k[1], NodeKey2 |-> k[2], e1 |-> e1, e2 |-> e2] :
        k \in NodeKeyPairs, e1 \in ChannelEdgePolicies,
        e2 \in ChannelEdgePolicies}

\* what a run of pruneZombieChans returns: nil, or the error of the call of
\* the graph store that failed
PruneOutcomes == {"nil", "ForEachChannel", "DeleteChannelEdges",
                  "PruneGraphNodes"}

\* the self-node test looking at the first node key only
firstKeyIsSelf(info) == info.NodeKey1 = SourcePubKey

\* info.NodeKey1Bytes == r.selfNode.PubKeyBytes ||
\* info.NodeKey2Bytes == r.selfNode.PubKeyBytes
isSelfChannel(info) ==
    info.NodeKey1 = SourcePubKey \/ info.NodeKey2 = SourcePubKey

\* if e != nil { eZombie = time.Since(e.LastUpdate) >= chanExpiry }
eZombie(e) == ~e.nil /\ Now - e.LastUpdate >= ChannelPruneExpiry

\* if e != nil { eDisabled = e.IsDisabled() }
eDisabled(e) == ~e.nil /\ e.disabled

isZombieChan(e1, e2, assumeValid) ==
    LET bothZombie == eZombie(e1) /\ eZombie(e2)
    IN IF assumeValid /\ ~bothZombie
       THEN eDisabled(e1) /\ eDisabled(e2)
       ELSE bothZombie

\* the channel ids ForEachChannel(filterPruneChans) collects
filterPruneChans(graph, assumeValid) ==
    {c \in DOMAIN graph :
        /\ ~isSelfChannel(graph[c])
        /\ isZombieChan(graph[c].e1, graph[c].e2, assumeValid)}

\* DeleteChannelEdges(chansToPrune...)
DeleteChannelEdges(graph, chansToPrune) ==
    [c \in DOMAIN graph \ chansToPrune |-> graph[c]]

\* one run of pruneZombieChans: an error of ForEachChannel or of
\* DeleteChannelEdges leaves the channels as they are, one of
\* PruneGraphNodes comes after the channels are deleted
pruneZombieChans(outcome) ==
    LET chansToPrune == filterPruneChans(channelGraph, assumeChannelValid)
    IN /\ channelGraph' =
              IF outcome \in {"nil", "PruneGraphNodes"}
              THEN DeleteChannelEdges(channelGraph, chansToPrune)
              ELSE channelGraph
       /\ zombieRun' = [graph |-> channelGraph, err |-> outcome]

(***************************************************************************)
(* Helpers.                                                                *)
(***************************************************************************)
Range(s) == {s[i] : i \in DOMAIN s}

Min(S) == CHOOSE x \in S : \A y \in S : x <= y

RECURSIVE SetToSeq(_)
SetToSeq(S) == IF S = {} THEN <<>> ELSE <<Min(S)>> \o SetToSeq(S \ {Min(S)})

RECURSIVE SumOver(_, _)
SumOver(f, S) == IF S = {} THEN 0
                 ELSE LET x == CHOOSE y \in S : TRUE IN f[x] + SumOver(f, S \ {x})

Pow2(n) == IF n <= 0 THEN 1 ELSE 2 ^ n

(***************************************************************************)
(* Transactions.  A transaction is known by the outpoints it spends and by *)
(* who made it: the sweeper ("sweep"), a remote party ("remote"), or the   *)
(* sweeper in an earlier run ("old").  Its output script, lock time and    *)
(* fee are not part of what the sweeper later learns about it.             *)
(***************************************************************************)
NoTx == [ins |-> {}, by |-> "none"]
OldTx == [ins |-> {}, by |-> "old"]
RemoteTxs == {[ins |-> s, by |-> "remote"] : s \in SUBSET OutPoints \ {{}}}

\* an outpoint no transaction of the batch has spent
NotInBatch == [attempts |-> 0, txs |-> 0]

\* createSweepTx (called at sweeper.go:816)
createSweepTx(inputs, script, height, feeRate) == [ins |-> inputs, by |-> "sweep"]

\* SweeperStore.IsOurTx: the hash was recorded by NotifyPublishTx
IsOurTx(tx) == tx \in store

Result(err, tx) == [err |-> err, tx |-> tx]

(***************************************************************************)
(* Fee rates and clustering.                                               *)
(***************************************************************************)
\* feeRateForPreference: the preference is an absolute fee rate, which must
\* lie between the relay fee rate and the maximum fee rate.
feeRateForPreferenceOk(feePreference) ==
    /\ feePreference >= relayFeeRate
    /\ feePreference <= DefaultMaxFeeRate

\* buckets of FeeRateBucketSize without the relay fee rate
bucketOfSizeOnly(feeRate) ==
    (feeRate + DefaultFeeRateBucketSize - 1) \div DefaultFeeRateBucketSize

\* bucketForFeeRate: math.Ceil(feeRate / (relayFeeRate + FeeRateBucketSize))
bucketForFeeRate(feeRate) ==
    LET minBucket == relayFeeRate + DefaultFeeRateBucketSize
    IN (feeRate + minBucket - 1) \div minBucket

\* clusterBySweepFeeRate sets lastFeeRate of every input it clusters.
SetLastFeeRates(p) ==
    [op \in DOMAIN p |->
        IF feeRateForPreferenceOk(p[op].feePreference)
        THEN [p[op] EXCEPT !.lastFeeRate = p[op].feePreference]
        ELSE p[op]]

\* clusterBySweepFeeRate: one cluster per bucket, its sweep fee rate the
\* integer mean of its inputs' fee rates.
clusterBySweepFeeRate(p) ==
    LET ok == {op \in DOMAIN p : feeRateForPreferenceOk(p[op].feePreference)}
        rate == [op \in ok |-> p[op].feePreference]
        buckets == {bucketForFeeRate(rate[op]) : op \in ok}
        inBucket(b) == {op \in ok : bucketForFeeRate(rate[op]) = b}
    IN {[sweepFeeRate |-> SumOver(rate, inBucket(b)) \div Cardinality(inBucket(b)),
         inputs |-> inBucket(b)] : b \in buckets}

\* the clusters sorted in ascending fee rate order
lowerFeeRateFirst(c, d) == c.sweepFeeRate <= d.sweepFeeRate

\* the order of sort.Slice: inputClusters[i].sweepFeeRate >
\* inputClusters[j].sweepFeeRate puts i first
higherFeeRateFirst(c, d) == d.sweepFeeRate <= c.sweepFeeRate

\* sort.Slice(inputClusters, sweepFeeRate descending)
RECURSIVE SortClusters(_)
SortClusters(S) ==
    IF S = {} THEN <<>>
    ELSE LET top == CHOOSE c \in S : \A d \in S : higherFeeRateFirst(c, d)
         IN <<top>> \o SortClusters(S \ {top})

\* generateInputPartitionings: sets of at most MaxInputsPerTx inputs, in order.
RECURSIVE generateInputPartitionings(_)
generateInputPartitionings(inputs) ==
    IF inputs = <<>> THEN <<>>
    ELSE LET n == IF Len(inputs) < MaxInputsPerTx THEN Len(inputs) ELSE MaxInputsPerTx
         IN <<Range(SubSeq(inputs, 1, n))>>
              \o generateInputPartitionings(SubSeq(inputs, n + 1, Len(inputs)))

\* every input taken as a new one
anyInputIsNew(publishAttempts) == TRUE

\* if input.publishAttempts == 0 { newInputs = append(newInputs, input.input) }
isNewInput(publishAttempts) == publishAttempts = 0

\* getInputLists building the sets of new inputs only
nothingToRetry(retryInputs) == FALSE

\* if len(retryInputs) > 0
anythingToRetry(retryInputs) == Len(retryInputs) > 0

\* getInputLists: the input sets of a cluster at a height.
getInputLists(cluster, p, currentHeight) ==
    LET sweepable == {op \in cluster.inputs : ~(p[op].minPublishHeight > currentHeight)}
        newInputs == SetToSeq({op \in sweepable :
                                  isNewInput(p[op].publishAttempts)})
        retryInputs == SetToSeq({op \in sweepable : p[op].publishAttempts # 0})
        allSets == IF anythingToRetry(retryInputs)
                   THEN generateInputPartitionings(retryInputs \o newInputs)
                   ELSE <<>>
        newSets == generateInputPartitionings(newInputs)
    IN allSets \o newSets

\* scheduleSweep: whether a timer is running afterwards.
scheduleSweepTimer(p, currentHeight) ==
    \/ timer
    \/ \E cluster \in clusterBySweepFeeRate(p) :
          Len(getInputLists(cluster, p, currentHeight)) # 0

\* scheduleSweep making a timer next to the one that is ticking
timerNeverTicking(t) == FALSE

\* if s.timer != nil { return nil }
timerTicking(t) == t

\* scheduleSweep: the timers it has NewBatchTimer make
newBatchTimers(p, currentHeight) ==
    IF timerTicking(timer) THEN 0
    ELSE IF \E cluster \in clusterBySweepFeeRate(p) :
               Len(getInputLists(cluster, p, currentHeight)) # 0
    THEN 1 ELSE 0

\* scheduleSweep: the pending inputs afterwards (clustering sets lastFeeRate
\* unless the timer was already ticking).
scheduleSweepInputs(p) == IF timer THEN p ELSE SetLastFeeRates(p)

(***************************************************************************)
(* signalAndRemove.                                                        *)
(***************************************************************************)
\* the sends on the listeners' channels
signalListeners(chans, listeners, result) ==
    [c \in DOMAIN chans |->
        IF c \in Range(listeners) THEN Append(chans[c], result) ELSE chans[c]]

\* signalAndRemove without the delete
removeInputSkipped(p, outpoint) == p

\* delete(s.pendingInputs, *outpoint)
removeInput(p, outpoint) == [op \in DOMAIN p \ {outpoint} |-> p[op]]

\* pendInput.ntfnRegCancel(): the goroutines of waitForSpend end, except
\* those that hold a spend already (inFlight), which still deliver it
cancelSpendNtfn(reg, outpoints, inFlight) == reg \ (outpoints \ inFlight)

\* signalAndRemove for every outpoint of a set, each with the same result
RECURSIVE signalAll(_, _, _, _)
signalAll(chans, p, outpoints, result) ==
    IF outpoints = {} THEN chans
    ELSE LET op == Min(outpoints)
         IN signalAll(IF op \in DOMAIN p
                      THEN signalListeners(chans, p[op].listeners, result)
                      ELSE chans,
                      p, outpoints \ {op}, result)

RECURSIVE removeAll(_, _)
removeAll(p, outpoints) ==
    IF outpoints = {} THEN p
    ELSE removeAll(removeInput(p, Min(outpoints)), outpoints \ {Min(outpoints)})

\* pendInput := s.pendingInputs[*outpoint]; listeners := pendInput.listeners:
\* for an outpoint that is not pending the map yields a nil pointer and the
\* read of its field panics
signalAndRemovePanics(p, outpoints) == \E op \in outpoints : op \notin DOMAIN p

\* the collector after signalAndRemove for each of the outpoints
afterSignalAndRemove(p, outpoints) ==
    IF signalAndRemovePanics(p, outpoints) THEN "panic" ELSE collector

(***************************************************************************)
(* The fields of the UtxoSweeper and the goroutines that touch them: the   *)
(* collector ("loop") and the callers of the public operations, each named *)
(* by the operation it runs.                                               *)
(***************************************************************************)
Access(by, field, mode) == [by |-> by, field |-> field, mode |-> mode]

reads(by, fields) == {Access(by, f, "read") : f \in fields}

writes(by, fields) == {Access(by, f, "write") : f \in fields}

\* feeRateForPreference: if feeRate < s.relayFeeRate
feeRateForPreferenceAccesses(by) == reads(by, {"relayFeeRate"})

\* clusterBySweepFeeRate: range s.pendingInputs, feeRateForPreference,
\* bucketForFeeRate, input.lastFeeRate = feeRate
clusterAccesses ==
    reads("loop", {"pendingInputs", "relayFeeRate"})
       \cup writes("loop", {"pendingInputs"})

\* scheduleSweep: s.timer != nil, the clusters, s.timer = NewBatchTimer()
scheduleSweepAccesses ==
    reads("loop", {"timer"}) \cup clusterAccesses \cup writes("loop", {"timer"})

\* signalAndRemove: s.pendingInputs[*outpoint], delete
signalAndRemoveAccesses ==
    reads("loop", {"pendingInputs"}) \cup writes("loop", {"pendingInputs"})

(***************************************************************************)
(* The sweeper's initial state (New) and Start / Stop.                     *)
(***************************************************************************)
\* Start has not been called
NotStarted == [lastTx |-> NoTx, republish |-> "none", err |-> "none",
               ret |-> "none"]

SweeperInit ==
    /\ started = FALSE
    /\ stopped = FALSE
    /\ quit = FALSE
    /\ collector = "none"
    /\ pendingInputs = <<>>
    /\ timer = FALSE
    /\ currentOutputScript = 0
    /\ relayFeeRate = 0
    /\ bestHeight = 0
    /\ inputClusters = <<>>
    /\ inputLists = <<>>
    /\ sweepFeeRate = 0
    /\ lastTx \in {NoTx, OldTx}
    /\ store = IF lastTx = NoTx THEN {} ELSE {lastTx}
    /\ published = {}
    /\ ntfnReg = {}
    /\ resultChans = <<>>
    /\ republished = 0
    /\ publishErrors = [op \in OutPoints |-> 0]
    /\ blocks = 0
    /\ batchTimers = 0
    /\ batchRates = <<>>
    /\ batchInputs = [op \in OutPoints |-> NotInBatch]
    /\ startCall = NotStarted
    /\ accessed = {}

\* the sweeper as the other components' specifications leave it
SweeperUnused == SweeperInit /\ lastTx = NoTx

StartErrors == {"none", "GetLastPublishedTx", "GetBestBlock", "RegisterBlockEpochNtfn"}

\* what PublishTransaction may return to Start
RepublishResults == {"nil", "DoubleSpend", "Error"}

\* Start returning the error of its publish
republishReturned(result) == result \notin {"nil", "DoubleSpend"}

\* if err != nil && err != lnwallet.ErrDoubleSpend { log.Errorf(...) }
republishFails(result) == FALSE

\* UtxoSweeper.Start
SweeperStart ==
    /\ ~started
    /\ started' = TRUE
    /\ \E err \in StartErrors, relay \in RelayFeeRates,
          result \in RepublishResults :
         IF err = "GetLastPublishedTx"
         THEN /\ result = "nil"
              /\ startCall' = [lastTx |-> NoTx, republish |-> "none",
                               err |-> err, ret |-> "error"]
              /\ UNCHANGED <<republished, relayFeeRate, bestHeight, collector,
                             accessed>>
         ELSE /\ lastTx = NoTx => result = "nil"
              /\ republished' = IF lastTx # NoTx THEN republished + 1 ELSE republished
              /\ IF lastTx # NoTx /\ republishFails(result)
                 THEN /\ startCall' = [lastTx |-> lastTx, republish |-> result,
                                       err |-> "PublishTransaction",
                                       ret |-> "error"]
                      /\ UNCHANGED <<relayFeeRate, collector, bestHeight,
                                     accessed>>
                 ELSE /\ startCall' =
                           [lastTx |-> lastTx,
                            republish |-> IF lastTx # NoTx THEN result ELSE "none",
                            err |-> err,
                            ret |-> IF err = "none" THEN "nil" ELSE "error"]
                      /\ relayFeeRate' = relay
                      /\ accessed' = accessed \cup writes("Start", {"relayFeeRate"})
                      /\ IF err = "none"
                         THEN collector' = "running" /\ bestHeight' = StartHeight
                         ELSE UNCHANGED <<collector, bestHeight>>
    /\ startReturns' = [startReturns EXCEPT !["sweeper"] =
                           Append(@, startCall'.ret)]
    /\ UNCHANGED <<stopped, quit, pendingInputs, timer, currentOutputScript,
                   inputClusters, inputLists, sweepFeeRate, store, lastTx,
                   published, ntfnReg, resultChans, blocks,
                   publishErrors, batchTimers, batchRates, batchInputs>>
    /\ UNCHANGED <<lifeVars, chainVars, gossipVars, payVars, queryVars,
                   callVars, classVars, stopVars, syncVars, zombieVars>>

\* UtxoSweeper.Stop
SweeperStop ==
    /\ ~stopped
    /\ stopped' = TRUE
    /\ quit' = TRUE
    /\ UNCHANGED <<started, collector, pendingInputs, timer, currentOutputScript,
                   relayFeeRate, bestHeight, inputClusters, inputLists,
                   sweepFeeRate, store, lastTx, published, ntfnReg,
                   resultChans, republished, blocks,
                   publishErrors, batchTimers, batchRates, batchInputs, startCall,
                   accessed>>
    /\ UNCHANGED routerVars

\* the collector is at its select statement
Idle == collector = "running" /\ inputLists = <<>>

\* collector: case <-s.quit
CollectorQuit ==
    /\ Idle
    /\ quit
    /\ collector' = "exited"
    /\ UNCHANGED <<started, stopped, quit, pendingInputs, timer,
                   currentOutputScript, relayFeeRate, bestHeight, inputClusters,
                   inputLists, sweepFeeRate, store, lastTx, published,
                   ntfnReg, resultChans, republished, blocks,
                   publishErrors, batchTimers, batchRates, batchInputs, startCall,
                   accessed>>
    /\ UNCHANGED routerVars

(***************************************************************************)
(* collector: case input := <-s.newInputs, together with the SweepInput    *)
(* call that sends the message (newInputs is unbuffered: the send and the  *)
(* receive are one step).                                                  *)
(***************************************************************************)
\* the new listener replacing the old ones
replaceListeners(listeners, resultChan) == <<resultChan>>

\* pendInput.listeners = append(pendInput.listeners, input.resultChan)
appendListener(listeners, resultChan) == Append(listeners, resultChan)

\* pendInput = &pendingInput{...}
newPendingInput(resultChan, feePreference) ==
    [listeners        |-> <<resultChan>>,
     minPublishHeight |-> bestHeight,
     publishAttempts  |-> 0,
     feePreference    |-> feePreference,
     lastFeeRate      |-> 0]

SweepInput(outpoint, feePreference, waitForSpendOk) ==
    /\ Idle
    /\ Len(resultChans) < MaxResultChans
    /\ feeRateForPreferenceOk(feePreference)
    /\ LET resultChan == Len(resultChans) + 1
           chans == Append(resultChans, <<>>)
       IN IF outpoint \in DOMAIN pendingInputs
          THEN /\ waitForSpendOk
               /\ pendingInputs' =
                     [pendingInputs EXCEPT ![outpoint].listeners =
                         appendListener(@, resultChan)]
               /\ resultChans' = chans
               /\ accessed' = accessed
                     \cup feeRateForPreferenceAccesses("SweepInput")
                     \cup reads("loop", {"pendingInputs"})
                     \cup writes("loop", {"pendingInputs"})
               /\ UNCHANGED <<ntfnReg, timer, publishErrors, batchTimers,
                              collector>>
          ELSE LET p == [op \in DOMAIN pendingInputs \cup {outpoint} |->
                            IF op = outpoint
                            THEN newPendingInput(resultChan, feePreference)
                            ELSE pendingInputs[op]]
               IN /\ publishErrors' = [publishErrors EXCEPT ![outpoint] = 0]
                  /\ IF ~waitForSpendOk
                     THEN /\ resultChans' = signalListeners(chans, p[outpoint].listeners,
                                                Result("WaitForSpend", NoTx))
                          /\ pendingInputs' = removeInput(p, outpoint)
                          /\ collector' = afterSignalAndRemove(p, {outpoint})
                          /\ accessed' = accessed
                                \cup feeRateForPreferenceAccesses("SweepInput")
                                \cup reads("loop", {"bestHeight"})
                                \cup signalAndRemoveAccesses
                          /\ UNCHANGED <<ntfnReg, timer, batchTimers>>
                     ELSE /\ resultChans' = chans
                          /\ ntfnReg' = ntfnReg \cup {outpoint}
                          /\ timer' = scheduleSweepTimer(p, bestHeight)
                          /\ batchTimers' = batchTimers + newBatchTimers(p, bestHeight)
                          /\ pendingInputs' = scheduleSweepInputs(p)
                          /\ UNCHANGED collector
                          /\ accessed' = accessed
                                \cup feeRateForPreferenceAccesses("SweepInput")
                                \cup reads("loop", {"pendingInputs", "bestHeight"})
                                \cup writes("loop", {"pendingInputs"})
                                \cup scheduleSweepAccesses
    /\ UNCHANGED <<started, stopped, quit, currentOutputScript,
                   relayFeeRate, bestHeight, inputClusters, inputLists,
                   sweepFeeRate, store, lastTx, published,
                   republished, blocks, batchRates, batchInputs, startCall>>
    /\ UNCHANGED routerVars

(***************************************************************************)
(* Spend notifications.                                                    *)
(***************************************************************************)
\* transactions that can confirm: those handed to PublishTransaction and
\* those of a remote party
Confirmable == published \cup RemoteTxs

\* the count of failed publishes is kept for pending inputs only
errorsOfPending(errors, p) ==
    [op \in OutPoints |-> IF op \in DOMAIN p THEN errors[op] ELSE 0]

\* var err error; if !isOurTx { err = ErrRemoteSpend }
spendErrNil(isOurTx) == "nil"

spendErr(isOurTx) == IF ~isOurTx THEN "RemoteSpend" ELSE "nil"

\* the spend handler giving up every pending input
everyPendingInput(tx, p) == DOMAIN p

\* the spend handler without the test for a pending input
everyNamedInput(tx, p) == tx.ins

\* for _, txIn := range spend.SpendingTx.TxIn: the inputs of the spending
\* transaction that are pending (_, ok := s.pendingInputs[outpoint])
spentInputs(tx, p) == {op \in tx.ins : op \in DOMAIN p}

\* collector: case spend := <-s.spendChan, together with the goroutine of
\* waitForSpend that sends the spend of its outpoint (spendChan is
\* unbuffered: the send and the receive are one step).
CollectorSpend(outpoint, tx, isOurTxOk) ==
    /\ Idle
    /\ outpoint \in ntfnReg
    /\ tx \in Confirmable
    /\ outpoint \in tx.ins
    /\ IF ~isOurTxOk
       THEN /\ ntfnReg' = ntfnReg \ {outpoint}
            /\ UNCHANGED <<pendingInputs, resultChans, timer, publishErrors,
                           batchTimers, accessed, collector>>
       ELSE LET spent == spentInputs(tx, pendingInputs)
                result == Result(spendErr(IsOurTx(tx)), tx)
                p == removeAll(pendingInputs, spent)
            IN /\ resultChans' = signalAll(resultChans, pendingInputs, spent, result)
               /\ collector' = afterSignalAndRemove(pendingInputs, spent)
               /\ \E inFlight \in SUBSET ((spent \cap ntfnReg) \ {outpoint}) :
                     ntfnReg' = cancelSpendNtfn(ntfnReg \ {outpoint}, spent, inFlight)
               /\ timer' = scheduleSweepTimer(p, bestHeight)
               /\ batchTimers' = batchTimers + newBatchTimers(p, bestHeight)
               /\ pendingInputs' = scheduleSweepInputs(p)
               /\ publishErrors' = errorsOfPending(publishErrors, p)
               /\ accessed' = accessed
                     \cup reads("loop", {"pendingInputs", "bestHeight"})
                     \cup (IF spent = {} THEN {} ELSE signalAndRemoveAccesses)
                     \cup scheduleSweepAccesses
    /\ UNCHANGED <<started, stopped, quit, currentOutputScript,
                   relayFeeRate, bestHeight, inputClusters, inputLists,
                   sweepFeeRate, store, lastTx, published,
                   republished, blocks, batchRates, batchInputs, startCall>>
    /\ UNCHANGED routerVars

(***************************************************************************)
(* collector: case epoch := <-blockEpochs                                  *)
(***************************************************************************)
BlockEpoch ==
    /\ Idle
    /\ blocks < MaxBlocks
    /\ blocks' = blocks + 1
    /\ bestHeight' = bestHeight + 1
    /\ timer' = scheduleSweepTimer(pendingInputs, bestHeight + 1)
    /\ batchTimers' = batchTimers + newBatchTimers(pendingInputs, bestHeight + 1)
    /\ pendingInputs' = scheduleSweepInputs(pendingInputs)
    /\ accessed' = accessed \cup writes("loop", {"bestHeight"})
                            \cup reads("loop", {"bestHeight"})
                            \cup scheduleSweepAccesses
    /\ UNCHANGED <<started, stopped, quit, collector, currentOutputScript,
                   relayFeeRate, inputClusters, inputLists, sweepFeeRate, store,
                   lastTx, published, ntfnReg, resultChans,
                   republished,
                   publishErrors, batchRates, batchInputs, startCall>>
    /\ UNCHANGED routerVars

(***************************************************************************)
(* collector: case <-s.timer.  The handler runs sweep once per input set;  *)
(* inputClusters / inputLists hold the part of its two loops still to run, *)
(* and no other case of the select can be taken until both are empty.      *)
(***************************************************************************)
\* for _, cluster := range inputClusters: the next cluster with input lists
RECURSIVE nextCluster(_, _, _)
nextCluster(clusters, p, currentHeight) ==
    IF clusters = <<>>
    THEN [lists |-> <<>>, clusters |-> <<>>, rate |-> 0]
    ELSE LET lists == getInputLists(Head(clusters), p, currentHeight)
         IN IF lists # <<>>
            THEN [lists |-> lists, clusters |-> Tail(clusters),
                  rate |-> Head(clusters).sweepFeeRate]
            ELSE nextCluster(Tail(clusters), p, currentHeight)

\* an outpoint at the expiry of the timer, with the publishAttempts its
\* input has
atExpiry(p, op) ==
    [attempts |-> IF op \in DOMAIN p THEN p[op].publishAttempts ELSE 0,
     txs |-> 0]

TimerExpire ==
    /\ Idle
    /\ timer
    /\ timer' = FALSE
    /\ batchTimers' = batchTimers - 1
    /\ batchRates' = <<>>
    /\ batchInputs' = [op \in OutPoints |-> atExpiry(pendingInputs, op)]
    /\ accessed' = accessed \cup reads("loop", {"timer", "bestHeight"})
                            \cup writes("loop", {"timer"})
                            \cup clusterAccesses
    /\ LET p == SetLastFeeRates(pendingInputs)
           next == nextCluster(SortClusters(clusterBySweepFeeRate(pendingInputs)),
                               p, bestHeight)
       IN /\ pendingInputs' = p
          /\ inputLists' = next.lists
          /\ inputClusters' = next.clusters
          /\ sweepFeeRate' = next.rate
    /\ UNCHANGED <<started, stopped, quit, collector, currentOutputScript,
                   relayFeeRate, bestHeight, store, lastTx, published,
                   ntfnReg, resultChans, republished, blocks,
                   publishErrors, startCall>>
    /\ UNCHANGED routerVars

(***************************************************************************)
(* sweep.  `outcome` names the first call of sweep that fails, or what     *)
(* PublishTransaction returns: "nil", "DoubleSpend", "Error" (any other    *)
(* error) or "NoReturn" (the call does not return).                        *)
(***************************************************************************)
SweepOutcomes == {"GenSweepScript", "createSweepTx", "NotifyPublishTx",
                  "nil", "DoubleSpend", "Error", "NoReturn"}

\* sweep publishing although NotifyPublishTx failed
notifyPublishTxIgnored(outcome) == FALSE

\* err = s.cfg.Store.NotifyPublishTx(tx); if err != nil { return }
notifyPublishTxFailed(outcome) == outcome = "NotifyPublishTx"

\* sweep returning on ErrDoubleSpend as on any other error
doubleSpendFails(outcome) == outcome # "nil"

\* if err != nil && err != lnwallet.ErrDoubleSpend { return }
publishFailed(outcome) == outcome # "nil" /\ outcome # "DoubleSpend"

\* the retry cap compared with > instead of >=
tooManyAttemptsOffByOne(publishAttempts) == publishAttempts > MaxSweepAttempts

\* if pi.publishAttempts >= s.cfg.MaxSweepAttempts
tooManyAttempts(publishAttempts) == publishAttempts >= MaxSweepAttempts

\* the script cfg.GenSweepScript returns
GenSweepScript == 1

\* the back-off without its first term
deltaFromZero(attempts) == 0..Pow2(attempts - 1) - 1

\* DefaultNextAttemptDeltaFunc: 1 + rand.Int31n(1 << uint(attempts-1))
DefaultNextAttemptDeltaFunc(attempts) == 1..Pow2(attempts - 1)

\* the reschedule loop of sweep over tx.TxIn
reschedule(p, inputs, currentHeight, delta) ==
    [op \in DOMAIN p |->
        IF op \in inputs
        THEN [p[op] EXCEPT !.publishAttempts = @ + 1,
                           !.minPublishHeight = currentHeight + delta[op]]
        ELSE p[op]]

\* the script cleared after ErrDoubleSpend as after nil
scriptClearedOnDoubleSpend(outcome, script) ==
    IF outcome \in {"nil", "DoubleSpend"} THEN 0 ELSE script

\* if err == nil { s.currentOutputScript = nil }
scriptAfterPublish(outcome, script) == IF outcome = "nil" THEN 0 ELSE script

\* the state sweep leaves behind, and what PublishTransaction returned to it
\* ("none": not called, or the call did not return)
sweep(inputs, feeRate, currentHeight, outcome, delta, inFlight) ==
    LET same == [pendingInputs |-> pendingInputs, resultChans |-> resultChans,
                 ntfnReg |-> ntfnReg, currentOutputScript |-> currentOutputScript,
                 store |-> store, lastTx |-> lastTx,
                 published |-> published, collector |-> collector,
                 returned |-> "none"]
        script == IF currentOutputScript = 0 THEN GenSweepScript
                  ELSE currentOutputScript
        generated == [same EXCEPT !.currentOutputScript = script]
        tx == createSweepTx(inputs, script, currentHeight, feeRate)
        recorded == IF outcome = "NotifyPublishTx" THEN generated
                    ELSE [generated EXCEPT !.store = store \cup {tx},
                                           !.lastTx = tx]
        handed == [recorded EXCEPT !.published = published \cup {tx},
                                   !.returned = IF outcome = "NoReturn" THEN "none"
                                                ELSE outcome]
        live == {op \in inputs : op \in DOMAIN pendingInputs}
        p == reschedule(pendingInputs, live, currentHeight, delta)
        gone == {op \in live : tooManyAttempts(p[op].publishAttempts)}
    IN IF currentOutputScript = 0 /\ outcome = "GenSweepScript" THEN same
       ELSE IF outcome = "createSweepTx" THEN generated
       ELSE IF notifyPublishTxFailed(outcome) THEN generated
       ELSE IF outcome = "NoReturn" THEN [handed EXCEPT !.collector = "hung"]
       ELSE IF publishFailed(outcome) THEN handed
       ELSE [handed EXCEPT
               !.currentOutputScript = scriptAfterPublish(outcome, script),
               !.pendingInputs = removeAll(p, gone),
               !.resultChans = signalAll(resultChans, p, gone,
                                         Result("TooManyAttempts", NoTx)),
               !.ntfnReg = cancelSpendNtfn(ntfnReg, gone, inFlight),
               !.collector = afterSignalAndRemove(p, gone)]

\* the values NextAttemptDeltaFunc can return for the inputs of one sweep
Deltas(inputs, outcome) ==
    {delta \in [inputs -> DefaultNextAttemptDeltaFunc(MaxSweepAttempts)] :
        \A op \in inputs :
            IF /\ outcome \in {"nil", "DoubleSpend"}
               /\ op \in DOMAIN pendingInputs
               /\ ~tooManyAttempts(pendingInputs[op].publishAttempts + 1)
            THEN delta[op] \in
                   DefaultNextAttemptDeltaFunc(pendingInputs[op].publishAttempts + 1)
            ELSE delta[op] = 1}

\* the inputs of one sweep whose goroutine of waitForSpend may hold a spend
\* when sweep gives the input up
InFlight(inputs, outcome) ==
    SUBSET {op \in inputs \cap ntfnReg :
              /\ ~publishFailed(outcome)
              /\ op \in DOMAIN pendingInputs
              /\ tooManyAttempts(pendingInputs[op].publishAttempts + 1)}

\* one iteration of `for _, inputs := range inputLists` in which the calls
\* sweep makes end as the outcome says
SweepWith(outcome) ==
    /\ collector = "running"
    /\ inputLists # <<>>
    /\   /\ outcome = "GenSweepScript" => currentOutputScript = 0
         /\ \E delta \in Deltas(Head(inputLists), outcome),
               inFlight \in InFlight(Head(inputLists), outcome) :
              LET after == sweep(Head(inputLists), sweepFeeRate, bestHeight,
                                 outcome, delta, inFlight)
                  tx == createSweepTx(Head(inputLists), GenSweepScript,
                                      bestHeight, sweepFeeRate)
                  next == nextCluster(inputClusters, after.pendingInputs, bestHeight)
              IN /\ pendingInputs' = after.pendingInputs
                 /\ resultChans' = after.resultChans
                 /\ ntfnReg' = after.ntfnReg
                 /\ currentOutputScript' = after.currentOutputScript
                 /\ store' = after.store
                 /\ lastTx' = after.lastTx
                 /\ published' = after.published
                 /\ batchRates' = IF after.published = published \cup {tx}
                                  THEN Append(batchRates, sweepFeeRate)
                                  ELSE batchRates
                 /\ batchInputs' =
                       IF after.published = published \cup {tx}
                       THEN [op \in OutPoints |->
                                IF op \in Head(inputLists)
                                THEN [batchInputs[op] EXCEPT !.txs = @ + 1]
                                ELSE batchInputs[op]]
                       ELSE batchInputs
                 /\ collector' = after.collector
                 /\ publishErrors' = errorsOfPending(
                       [op \in OutPoints |->
                           IF /\ op \in Head(inputLists)
                              /\ after.returned \in {"DoubleSpend", "Error"}
                              /\ publishErrors[op] < MaxSweepAttempts
                           THEN publishErrors[op] + 1 ELSE publishErrors[op]],
                       after.pendingInputs)
                 /\ IF after.collector = "hung"
                    THEN UNCHANGED <<inputLists, inputClusters, sweepFeeRate>>
                    ELSE IF Tail(inputLists) # <<>>
                    THEN /\ inputLists' = Tail(inputLists)
                         /\ UNCHANGED <<inputClusters, sweepFeeRate>>
                    ELSE /\ inputLists' = next.lists
                         /\ inputClusters' = next.clusters
                         /\ sweepFeeRate' = next.rate
    /\ accessed' = accessed
          \cup reads("loop", {"currentOutputScript", "bestHeight"})
          \cup (IF outcome = "GenSweepScript" THEN {}
                ELSE IF currentOutputScript = 0 \/ outcome = "nil"
                THEN writes("loop", {"currentOutputScript"}) ELSE {})
          \cup (IF outcome \in {"nil", "DoubleSpend"}
                THEN signalAndRemoveAccesses ELSE {})
    /\ UNCHANGED <<started, stopped, quit, timer, relayFeeRate, bestHeight,
                   republished, blocks, batchTimers, startCall>>
    /\ UNCHANGED routerVars

\* one iteration of `for _, inputs := range inputLists`
SweepStep == \E outcome \in SweepOutcomes : SweepWith(outcome)

(***************************************************************************)
(* The public operations that change nothing.                              *)
(***************************************************************************)
\* PendingInputs ranging over s.pendingInputs on the caller's thread
pendingInputsOfCaller == reads("PendingInputs", {"pendingInputs"})

\* handlePendingSweepsReq: for _, pendingInput := range s.pendingInputs
handlePendingSweepsReq == reads("loop", {"pendingInputs"})

\* UtxoSweeper.PendingInputs, together with the collector's
\* case req := <-s.pendingSweepsReqs (pendingSweepsReqs is unbuffered: the
\* send and the receive are one step; the reply goes over a channel)
PendingInputs ==
    /\ Idle
    /\ accessed' = accessed \cup handlePendingSweepsReq
    /\ UNCHANGED <<started, stopped, quit, collector, pendingInputs, timer,
                   currentOutputScript, relayFeeRate, bestHeight, inputClusters,
                   inputLists, sweepFeeRate, store, lastTx, published,
                   ntfnReg, resultChans, republished, blocks,
                   publishErrors, batchTimers, batchRates, batchInputs, startCall>>
    /\ UNCHANGED routerVars

\* UtxoSweeper.CreateSweepTx: s.cfg.FeeEstimator, s.cfg.GenSweepScript,
\* s.cfg.Signer; nothing of the sweeper is kept
CreateSweepTx ==
    /\ accessed' = accessed \cup reads("CreateSweepTx", {"cfg"})
    /\ UNCHANGED <<started, stopped, quit, collector, pendingInputs, timer,
                   currentOutputScript, relayFeeRate, bestHeight, inputClusters,
                   inputLists, sweepFeeRate, store, lastTx, published,
                   ntfnReg, resultChans, republished, blocks,
                   publishErrors, batchTimers, batchRates, batchInputs, startCall>>
    /\ UNCHANGED routerVars

(***************************************************************************)
(* The sweeper's specification.                                            *)
(***************************************************************************)
SweeperNext ==
    \/ SweeperStart
    \/ SweeperStop
    \/ CollectorQuit
    \/ \E outpoint \in OutPoints, feePreference \in FeePreferences,
          waitForSpendOk \in BOOLEAN :
          SweepInput(outpoint, feePreference, waitForSpendOk)
    \/ \E outpoint \in OutPoints, tx \in Confirmable, isOurTxOk \in BOOLEAN :
          CollectorSpend(outpoint, tx, isOurTxOk)
    \/ BlockEpoch
    \/ TimerExpire
    \/ SweepStep

\* the sweeper from New, the router never started
SweeperSpecInit == SweeperInit /\ RouterInit

SweeperSpec == SweeperSpecInit /\ [][SweeperNext]_vars

(***************************************************************************)
(* The sweeper with all its public operations: those of SweeperSpec, for a *)
(* store without a last transaction, and the calls of PendingInputs and    *)
(* CreateSweepTx.                                                          *)
(***************************************************************************)
AccessInit == SweeperUnused /\ RouterInit

AccessNext ==
    \/ SweeperStart
    \/ SweeperStop
    \/ CollectorQuit
    \/ \E outpoint \in OutPoints, feePreference \in FeePreferences,
          waitForSpendOk \in BOOLEAN :
          SweepInput(outpoint, feePreference, waitForSpendOk)
    \/ \E outpoint \in OutPoints, tx \in Confirmable, isOurTxOk \in BOOLEAN :
          CollectorSpend(outpoint, tx, isOurTxOk)
    \/ BlockEpoch
    \/ TimerExpire
    \/ SweepStep
    \/ PendingInputs
    \/ CreateSweepTx

AccessSpec == AccessInit /\ [][AccessNext]_vars

(***************************************************************************)
(* Clustering under other relay fee rates: the sweeper after a Start that  *)
(* found no last transaction and a fee estimator that answered any relay   *)
(* fee rate up to MaxRelayFeeRate, then new inputs, blocks, expiries of    *)
(* the timer and sweeps.                                                   *)
(***************************************************************************)
\* the state Start leaves behind when it returns nil
Started(relay) ==
    /\ started = TRUE
    /\ stopped = FALSE
    /\ quit = FALSE
    /\ collector = "running"
    /\ pendingInputs = <<>>
    /\ timer = FALSE
    /\ currentOutputScript = 0
    /\ relayFeeRate = relay
    /\ bestHeight = StartHeight
    /\ inputClusters = <<>>
    /\ inputLists = <<>>
    /\ sweepFeeRate = 0
    /\ lastTx = NoTx
    /\ store = {}
    /\ published = {}
    /\ ntfnReg = {}
    /\ resultChans = <<>>
    /\ republished = 0
    /\ publishErrors = [op \in OutPoints |-> 0]
    /\ blocks = 0
    /\ batchTimers = 0
    /\ batchRates = <<>>
    /\ batchInputs = [op \in OutPoints |-> NotInBatch]
    /\ startCall = [lastTx |-> NoTx, republish |-> "none", err |-> "none",
                    ret |-> "nil"]
    /\ accessed = writes("Start", {"relayFeeRate"})

BucketInit ==
    /\ \E relay \in 0..MaxRelayFeeRate : Started(relay)
    /\ RouterInit

BucketNext ==
    \/ \E outpoint \in OutPoints, feePreference \in FeePreferences,
          waitForSpendOk \in BOOLEAN :
          SweepInput(outpoint, feePreference, waitForSpendOk)
    \/ BlockEpoch
    \/ TimerExpire
    \/ SweepStep

BucketSpec == BucketInit /\ [][BucketNext]_vars

(***************************************************************************)
(* The router: Start and Stop.                                             *)
(***************************************************************************)
\* ChannelRouter.Start.  An error of one of its calls leaves the router
\* marked started with nothing launched.
\* NewPaymentSession: the routes a session yields
freshSession == MaxRoutes

\* NewPaymentSessionEmpty: the session of a resumed payment yields no route
sessionNotEmpty == freshSession

resumeSession == 0

\* a paymentLifecycle as sendPayment sets it up
\* an error as a caller sees it: failure is the attempt whose ForwardingError
\* it is, 0 for any other error
ErrorValue(err, failure) == [err |-> err, failure |-> failure]

NoReturn == ErrorValue("none", 0)

\* failure is the attempt whose ForwardingError the lifecycle returns as err,
\* lastError the attempt whose ForwardingError it has kept
Lifecycle(api, hash, attempt, routes) ==
    [resumed |-> api = "resume", hash |-> hash, attempt |-> attempt,
     routes |-> routes,
     pc |-> "resumePayment", err |-> "none", stored |-> attempt,
     registered |-> 0, sent |-> 0, queried |-> {},
     failure |-> 0, lastError |-> 0, ret |-> NoReturn]

\* FetchInFlightPayments, and one sendPayment per payment with the attempt the
\* control tower has stored
RECURSIVE resumePayments(_)
resumePayments(hashes) ==
    IF hashes = {} THEN <<>>
    ELSE LET hash == Min(hashes)
         IN <<Lifecycle("resume", hash, control[hash].attempt, resumeSession)>>
            \o resumePayments(hashes \ {hash})

FetchInFlightPayments == {h \in Hashes : control[h].status = "InFlight"}

RouterStart(startOk) ==
    /\ ~routerStarted
    /\ routerStarted' = TRUE
    /\ IF startOk
       THEN /\ routerBestHeight' = StartHeight
            /\ pruneTip' = StartHeight
            /\ lifecycles' = lifecycles \o resumePayments(FetchInFlightPayments)
            /\ networkHandler' = "running"
       ELSE UNCHANGED <<routerBestHeight, pruneTip, lifecycles, networkHandler>>
    /\ UNCHANGED <<routerStopped, routerQuit, closedAt, topologyClients,
                   lastTopologyChange, outOfOrderBlock, reorg, storeErrors>>
    /\ IF assumeChannelValid
       THEN \/ startOk /\ pruneZombieChans("nil")
            \/ ~startOk /\ UNCHANGED zombieVars
            \/ /\ ~startOk
               /\ \E outcome \in PruneOutcomes \ {"nil"} :
                      pruneZombieChans(outcome)
       ELSE UNCHANGED zombieVars
    /\ startReturns' = [startReturns EXCEPT !["router"] =
                           Append(@, IF startOk THEN "nil" ELSE "error")]
    /\ UNCHANGED <<control, htlcs, nextPaymentID>>
    /\ UNCHANGED <<sweeperVars, gossipVars, queryVars, callVars, classVars,
                   stopVars, syncVars>>

\* the networkHandler is at its select statement
HandlerIdle == networkHandler = "running"

(***************************************************************************)
(* The graph store's pruning, as the router relies on it.                  *)
(***************************************************************************)
\* PruneGraph: the channels in the graph whose funding outpoint is spent
chansClosed(spentOutputs) == {c \in Channels : closedAt[c] = 0 /\ c \in spentOutputs}

\* PruneGraph: the graph afterwards
PruneGraph(spentOutputs, height) ==
    [c \in Channels |-> IF c \in chansClosed(spentOutputs) THEN height ELSE closedAt[c]]

\* DisconnectBlockAtHeight: the channels closed by the blocks from that
\* height on are in the graph again
DisconnectBlockAtHeight(height) ==
    [c \in Channels |-> IF closedAt[c] >= height THEN 0 ELSE closedAt[c]]

\* DisconnectBlockAtHeight: the prune tip afterwards
disconnectedTip(height) == IF pruneTip >= height THEN height - 1 ELSE pruneTip

(***************************************************************************)
(* The reorg scenario: blocks h1, h2, h3 each closing one channel, stale   *)
(* h3, h2 (and h1), then h2' closing another channel and h3'.              *)
(***************************************************************************)
newBlock(height, spentOutputs) ==
    [kind |-> "new", height |-> height, spent |-> spentOutputs]

staleBlock(height) == [kind |-> "stale", height |-> height, spent |-> {}]

ReorgCommon ==
    <<newBlock(StartHeight + 1, {1}), newBlock(StartHeight + 2, {2}),
      newBlock(StartHeight + 3, {3}),
      staleBlock(StartHeight + 3), staleBlock(StartHeight + 2)>>

NewChain == <<newBlock(StartHeight + 2, {4}), newBlock(StartHeight + 3, {})>>

\* as stated: h1 is reported stale too
ReorgDepth3 == ReorgCommon \o <<staleBlock(StartHeight + 1)>> \o NewChain

\* h1 stays on the chain
ReorgDepth2 == ReorgCommon \o NewChain

Off == <<[kind |-> "off", height |-> 0, spent |-> {}]>>

IsPrefix(s, t) == Len(s) <= Len(t) /\ SubSeq(t, 1, Len(s)) = s

\* the scenario monitor after one more block event
follow(event, ok) ==
    LET next == Append(reorg, event)
    IN IF ok /\ (IsPrefix(next, ReorgDepth3) \/ IsPrefix(next, ReorgDepth2))
       THEN next ELSE Off

(***************************************************************************)
(* networkHandler: the block cases and the topology client case.           *)
(***************************************************************************)
\* the height check left out
outOfOrderNever(height, currentHeight) == FALSE

\* if chainUpdate.Height != currentHeight+1 { continue }
outOfOrder(height, currentHeight) == height # currentHeight + 1

\* networkHandler: case chainUpdate, ok := <-r.newBlocks
NewBlock(height, spentOutputs, pruneOk) ==
    /\ HandlerIdle
    /\ pruneOk \/ storeErrors < MaxStoreErrors
    /\ IF outOfOrder(height, routerBestHeight)
       THEN /\ pruneOk
            /\ outOfOrderBlock' = height
            /\ UNCHANGED <<routerBestHeight, pruneTip, closedAt, lastTopologyChange,
                           storeErrors>>
       ELSE /\ routerBestHeight' = height
            /\ IF ~pruneOk
               THEN /\ storeErrors' = storeErrors + 1
                    /\ UNCHANGED <<pruneTip, closedAt, lastTopologyChange>>
               ELSE /\ UNCHANGED storeErrors
                    /\ closedAt' = PruneGraph(spentOutputs, height)
                    /\ pruneTip' = height
                    /\ lastTopologyChange' =
                          IF chansClosed(spentOutputs) = {} THEN lastTopologyChange
                          ELSE chansClosed(spentOutputs)
            /\ UNCHANGED outOfOrderBlock
    /\ reorg' = follow(newBlock(height, spentOutputs), pruneOk)
    /\ UNCHANGED <<lifeVars, topologyClients>>
    /\ UNCHANGED exceptChain

\* the best height left at the stale block
staleBlockHeight(blockHeight) == blockHeight

\* atomic.StoreUint32(&r.bestHeight, blockHeight-1)
previousBlock(blockHeight) == blockHeight - 1

\* networkHandler: case chainUpdate, ok := <-r.staleBlocks
StaleBlock(height, disconnectOk) ==
    /\ HandlerIdle
    /\ disconnectOk \/ storeErrors < MaxStoreErrors
    /\ routerBestHeight' = previousBlock(height)
    /\ IF ~disconnectOk
       THEN /\ storeErrors' = storeErrors + 1
            /\ UNCHANGED <<pruneTip, closedAt>>
       ELSE /\ UNCHANGED storeErrors
            /\ closedAt' = DisconnectBlockAtHeight(height)
            /\ pruneTip' = disconnectedTip(height)
    /\ reorg' = follow(staleBlock(height), disconnectOk)
    /\ UNCHANGED <<lifeVars, topologyClients, lastTopologyChange, outOfOrderBlock>>
    /\ UNCHANGED exceptChain

\* networkHandler: case ntfnUpdate := <-r.ntfnClientUpdates
NtfnClientUpdate(clientID, cancel) ==
    /\ HandlerIdle
    /\ topologyClients' = IF cancel THEN topologyClients \ {clientID}
                          ELSE topologyClients \cup {clientID}
    /\ UNCHANGED <<lifeVars, routerBestHeight, pruneTip, closedAt,
                   lastTopologyChange, outOfOrderBlock, reorg, storeErrors>>
    /\ UNCHANGED exceptChain

ChainNext ==
    \/ \E startOk \in BOOLEAN : RouterStart(startOk)
    \/ \E height \in BlockHeights, spentOutputs \in SpentOutputs,
          pruneOk \in BOOLEAN : NewBlock(height, spentOutputs, pruneOk)
    \/ \E height \in BlockHeights, disconnectOk \in BOOLEAN :
          StaleBlock(height, disconnectOk)
    \/ \E clientID \in ClientIDs, cancel \in BOOLEAN :
          NtfnClientUpdate(clientID, cancel)

\* the router from New, the sweeper never started
ChainInit == SweeperUnused /\ RouterInit

ChainSpec == ChainInit /\ [][ChainNext]_vars

(***************************************************************************)
(* Graph updates.  AddNode, AddEdge and UpdateEdge hand a routingMsg to    *)
(* the networkHandler over the unbuffered networkUpdates channel; the      *)
(* handler registers the job with the validation barrier and starts one    *)
(* goroutine per job.  The validation barrier and the graph store are not  *)
(* part of the sources and follow the specification: one signal per        *)
(* channel id, created by the first pending channel announcement, closed   *)
(* and removed by SignalDependants.                                        *)
(***************************************************************************)
ChannelEdgeInfo(chanID) == [kind |-> "info", chanID |-> chanID, dir |-> 0,
                            LastUpdate |-> 0]

ChannelEdgePolicy(chanID, dir, LastUpdate) ==
    [kind |-> "policy", chanID |-> chanID, dir |-> dir,
     LastUpdate |-> LastUpdate]

routingMsgs ==
    {ChannelEdgeInfo(c) : c \in GossipChannels} \cup
    {ChannelEdgePolicy(c, d, t) :
        c \in GossipChannels, d \in Directions, t \in Timestamps}

\* the jobs whose goroutine has not returned hold a slot of the barrier
activeJobs == {j \in DOMAIN jobs : jobs[j].pc \notin {"done", "shutdown"}}

\* InitJobDependencies: a channel announcement opens the signal its policies
\* wait on, unless one is open already
InitJobDependencies(msg) ==
    IF msg.kind = "info" THEN chanAnnFinSignal \cup {msg.chanID}
    ELSE chanAnnFinSignal

\* case update := <-r.networkUpdates, up to the start of the goroutine
receiveUpdate(msg) ==
    /\ HandlerIdle
    /\ Len(jobs) < MaxJobs
    /\ Cardinality(activeJobs) < BarrierSlots
    /\ chanAnnFinSignal' = InitJobDependencies(msg)
    /\ jobs' = Append(jobs, [msg |-> msg, pc |-> "WaitForDependants",
                             err |-> "none", exists |-> FALSE,
                             isZombie |-> FALSE, edgeTimestamp |-> 0,
                             added |-> FALSE, filtered |-> FALSE])
    /\ UNCHANGED <<lifeVars, channelEdgeMtx, edgeExists, edgeTimestamps, written>>

\* the same, for a caller that is not followed further
NetworkUpdate(msg) ==
    /\ receiveUpdate(msg)
    /\ UNCHANGED exceptGossip

\* WaitForDependants: a policy waits while the signal of its channel is open
dependencyOpen(msg) == msg.kind = "policy" /\ msg.chanID \in chanAnnFinSignal

JobProceed(j) ==
    /\ jobs[j].pc = "WaitForDependants"
    /\ ~dependencyOpen(jobs[j].msg)
    /\ jobs' = [jobs EXCEPT ![j].pc = "processUpdate"]
    /\ UNCHANGED <<lifeVars, chanAnnFinSignal, channelEdgeMtx, edgeExists,
                   edgeTimestamps, written>>
    /\ UNCHANGED exceptGossip

\* WaitForDependants returns ErrVBarrierShuttingDown: the goroutine returns
\* without processUpdate and without an answer on update.err
JobShutdown(j) ==
    /\ jobs[j].pc = "WaitForDependants"
    /\ dependencyOpen(jobs[j].msg)
    /\ routerQuit
    /\ jobs' = [jobs EXCEPT ![j].pc = "shutdown"]
    /\ UNCHANGED <<lifeVars, chanAnnFinSignal, channelEdgeMtx, edgeExists,
                   edgeTimestamps, written>>
    /\ UNCHANGED exceptGossip

\* graph store: AddChannelEdge refuses a channel id it already has
AddChannelEdge(chanID) ==
    IF chanID \in edgeExists THEN [edges |-> edgeExists, err |-> "error"]
    ELSE [edges |-> edgeExists \cup {chanID}, err |-> "nil"]

\* the check of isZombie alone
zombieOnly(exists, isZombie) == isZombie

\* if isZombie { return ErrIgnored }; if exists { return ErrIgnored }
ignoredChannel(exists, isZombie) == isZombie \/ exists

\* processUpdate, ChannelEdgeInfo, up to the validation of the funding output:
\* HasChannelEdge, then the checks against the chain, which fail for an
\* announcement that is not valid
ProcessInfoCheck(j, valid) ==
    /\ jobs[j].pc = "processUpdate"
    /\ jobs[j].msg.kind = "info"
    /\ LET exists == jobs[j].msg.chanID \in edgeExists
           isZombie == jobs[j].msg.chanID \in zombieIndex
           found == [jobs[j] EXCEPT !.exists = exists, !.isZombie = isZombie]
       IN jobs' = [jobs EXCEPT ![j] =
                 IF ignoredChannel(exists, isZombie)
                 THEN [found EXCEPT !.pc = "SignalDependants",
                                    !.err = "ErrIgnored"]
                 ELSE IF ~assumeChannelValid /\ ~valid
                 THEN [found EXCEPT !.pc = "SignalDependants",
                                    !.err = "error"]
                 ELSE [found EXCEPT !.pc = "AddChannelEdge"]]
    /\ UNCHANGED <<lifeVars, chanAnnFinSignal, channelEdgeMtx, edgeExists,
                   edgeTimestamps, written>>
    /\ UNCHANGED exceptGossip

\* processUpdate, ChannelEdgeInfo, from AddChannelEdge to its return: under
\* AssumeChannelValid the channel is added and that is all, otherwise
\* ChainView.UpdateFilter follows the AddChannelEdge that succeeded
ProcessInfoAdd(j, filterOk) ==
    /\ jobs[j].pc = "AddChannelEdge"
    /\ LET added == AddChannelEdge(jobs[j].msg.chanID)
           updatesFilter == added.err = "nil" /\ ~assumeChannelValid
       IN /\ edgeExists' = added.edges
          /\ jobs' = [jobs EXCEPT
                 ![j].pc = "SignalDependants",
                 ![j].err = IF updatesFilter /\ ~filterOk THEN "error"
                            ELSE added.err,
                 ![j].added = added.err = "nil",
                 ![j].filtered = updatesFilter /\ filterOk]
    /\ UNCHANGED <<lifeVars, chanAnnFinSignal, channelEdgeMtx, edgeTimestamps,
                   written>>
    /\ UNCHANGED exceptGossip

\* r.channelEdgeMtx.Lock(msg.ChannelID) returns once the mutex of the channel
\* id is free
lockFree(holder) == TRUE

Lock(holder) == holder = 0

\* processUpdate, ChannelEdgePolicy: Lock, then HasChannelEdge
ProcessPolicyLock(j) ==
    /\ jobs[j].pc = "processUpdate"
    /\ jobs[j].msg.kind = "policy"
    /\ LET msg == jobs[j].msg
       IN /\ Lock(channelEdgeMtx[msg.chanID])
          /\ channelEdgeMtx' = [channelEdgeMtx EXCEPT ![msg.chanID] = j]
          /\ jobs' = [jobs EXCEPT
                 ![j].pc = "locked",
                 ![j].exists = msg.chanID \in edgeExists,
                 ![j].isZombie = msg.chanID \in zombieIndex,
                 ![j].edgeTimestamp = edgeTimestamps[msg.chanID][msg.dir]]
    /\ UNCHANGED <<lifeVars, chanAnnFinSignal, edgeExists, edgeTimestamps,
                   written>>
    /\ UNCHANGED exceptGossip

\* time.Since(timestamp) > r.cfg.ChannelPruneExpiry
olderThanExpiry(timestamp) == Now - timestamp > ChannelPruneExpiry

\* the comparison the other way round
isNewerUpdate(edgeTimestamp, LastUpdate) == edgeTimestamp < LastUpdate

\* !edgeTimestamp.Before(msg.LastUpdate)
isStaleUpdate(edgeTimestamp, LastUpdate) == ~(edgeTimestamp < LastUpdate)

\* the check of exists left out
knownAlways(exists) == FALSE

\* if !exists
unknownChannel(exists) == ~exists

\* processUpdate, ChannelEdgePolicy, from the checks of what HasChannelEdge
\* returned to the deferred Unlock
ProcessPolicyUpdate(j) ==
    /\ jobs[j].pc = "locked"
    /\ LET msg == jobs[j].msg
           err == IF jobs[j].isZombie /\ olderThanExpiry(msg.LastUpdate)
                  THEN "ErrIgnored"
                  ELSE IF unknownChannel(jobs[j].exists) THEN "ErrIgnored"
                  ELSE IF isStaleUpdate(jobs[j].edgeTimestamp, msg.LastUpdate)
                  THEN "ErrOutdated"
                  ELSE "nil"
       IN /\ jobs' = [jobs EXCEPT ![j].pc = "SignalDependants", ![j].err = err]
          /\ channelEdgeMtx' = [channelEdgeMtx EXCEPT ![msg.chanID] = 0]
          /\ IF err = "nil"
             THEN /\ edgeTimestamps' = [edgeTimestamps EXCEPT
                         ![msg.chanID][msg.dir] = msg.LastUpdate]
                  /\ written' = [written EXCEPT ![msg.chanID][msg.dir] =
                                    Append(@, msg.LastUpdate)]
             ELSE UNCHANGED <<edgeTimestamps, written>>
    /\ UNCHANGED <<lifeVars, chanAnnFinSignal, edgeExists>>
    /\ UNCHANGED exceptGossip

\* the goroutine calls SignalDependants whatever processUpdate returned
signalOnSuccess(err) == err = "nil"

signalsDependants(err) == TRUE

\* SignalDependants: a channel announcement closes and removes the signal of
\* its channel id
SignalDependants(msg) ==
    IF msg.kind = "info" THEN chanAnnFinSignal \ {msg.chanID}
    ELSE chanAnnFinSignal

\* update.err <- err has happened; SignalDependants, and the goroutine returns
\* (CompleteJob).  No client is registered for topology changes here.
JobSignal(j) ==
    /\ jobs[j].pc = "SignalDependants"
    /\ chanAnnFinSignal' = IF signalsDependants(jobs[j].err)
                           THEN SignalDependants(jobs[j].msg)
                           ELSE chanAnnFinSignal
    /\ jobs' = [jobs EXCEPT ![j].pc = "done"]
    /\ UNCHANGED <<lifeVars, channelEdgeMtx, edgeExists, edgeTimestamps, written>>
    /\ UNCHANGED exceptGossip

\* Stop: the quit channel is closed unless ChainView.Stop fails
RouterStop(chainViewStopOk) ==
    /\ ~routerStopped
    /\ routerStopped' = TRUE
    /\ routerQuit' = chainViewStopOk
    /\ UNCHANGED <<routerStarted, networkHandler, chainVars, gossipVars, payVars, queryVars,
                   callVars, classVars, stopVars, syncVars, zombieVars, startVars,
                   sweeperVars>>

\* case <-r.quit of the networkHandler
HandlerQuit ==
    /\ HandlerIdle
    /\ routerQuit
    /\ networkHandler' = "exited"
    /\ UNCHANGED <<routerStarted, routerStopped, routerQuit, chainVars, payVars, queryVars,
                   callVars, classVars, stopVars, syncVars, zombieVars, startVars,
                   gossipVars, sweeperVars>>

GossipNext ==
    \/ \E startOk \in BOOLEAN : RouterStart(startOk)
    \/ \E msg \in routingMsgs : NetworkUpdate(msg)
    \/ \E j \in DOMAIN jobs : JobProceed(j)
    \/ \E j \in DOMAIN jobs : JobShutdown(j)
    \/ \E j \in DOMAIN jobs, valid \in BOOLEAN : ProcessInfoCheck(j, valid)
    \/ \E j \in DOMAIN jobs, filterOk \in BOOLEAN : ProcessInfoAdd(j, filterOk)
    \/ \E j \in DOMAIN jobs : ProcessPolicyLock(j)
    \/ \E j \in DOMAIN jobs : ProcessPolicyUpdate(j)
    \/ \E j \in DOMAIN jobs : JobSignal(j)
    \/ \E chainViewStopOk \in BOOLEAN : RouterStop(chainViewStopOk)
    \/ HandlerQuit

\* the router from New, the sweeper never started
GossipInit == SweeperUnused /\ RouterInit

GossipSpec == GossipInit /\ [][GossipNext]_vars

(***************************************************************************)
(* IsStaleEdgePolicy next to UpdateEdge                                    *)
(***************************************************************************)

GraphStates == {"live", "zombie", "unknown"}

StoredTimestamps == {0} \cup Timestamps

\* the rule with "newer" for "not older"
staleWhenStrictlyNewer(chanID, timestamp, dir, disabled) ==
    IF chanID \in zombieIndex
    THEN IF assumeChannelValid /\ disabled
         THEN TRUE
         ELSE olderThanExpiry(timestamp)
    ELSE IF chanID \notin edgeExists
    THEN FALSE
    ELSE edgeTimestamps[chanID][dir] > timestamp

\* IsStaleEdgePolicy: dir is flags&ChanUpdateDirection + 1, disabled is
\* flags&ChanUpdateDisabled
IsStaleEdgePolicy(chanID, timestamp, dir, disabled) ==
    IF chanID \in zombieIndex
    THEN IF assumeChannelValid /\ disabled
         THEN TRUE
         ELSE olderThanExpiry(timestamp)
    ELSE IF chanID \notin edgeExists
    THEN FALSE
    ELSE ~(edgeTimestamps[chanID][dir] < timestamp)

\* a caller asks IsStaleEdgePolicy and keeps the answer
IsStaleEdgePolicyCall(chanID, timestamp, dir, disabled) ==
    /\ staleQuery = NoQuery
    /\ staleQuery' = [chanID |-> chanID, dir |-> dir, timestamp |-> timestamp,
                      disabled |-> disabled,
                      stale |-> IsStaleEdgePolicy(chanID, timestamp, dir,
                                                  disabled)]
    /\ UNCHANGED <<zombieIndex, assumeChannelValid>>
    /\ UNCHANGED <<sweeperVars, lifeVars, chainVars, gossipVars, payVars,
                   callVars, classVars, stopVars, syncVars, zombieVars, startVars>>

\* the caller hands the policy it asked about to UpdateEdge
UpdateEdgeQueried ==
    /\ staleQuery # NoQuery
    /\ jobs = <<>>
    /\ NetworkUpdate(ChannelEdgePolicy(staleQuery.chanID, staleQuery.dir,
                                       staleQuery.timestamp))

StaleNext ==
    \/ \E startOk \in BOOLEAN : RouterStart(startOk)
    \/ \E chanID \in GossipChannels, timestamp \in Timestamps,
          dir \in Directions, disabled \in BOOLEAN :
          IsStaleEdgePolicyCall(chanID, timestamp, dir, disabled)
    \/ UpdateEdgeQueried
    \/ \E j \in DOMAIN jobs : JobProceed(j)
    \/ \E j \in DOMAIN jobs : ProcessPolicyLock(j)
    \/ \E j \in DOMAIN jobs : ProcessPolicyUpdate(j)
    \/ \E j \in DOMAIN jobs : JobSignal(j)

\* the router from New over a graph store that holds each channel as live
\* (with the timestamps of its two policies), as a zombie, or not at all
StaleInit ==
    /\ SweeperUnused
    /\ RouterIdle
    /\ control = [h \in Hashes |-> NoPayment]
    /\ htlcs = {}
    /\ nextPaymentID = NumHashes + 1
    /\ assumeChannelValid \in BOOLEAN
    /\ \E status \in [GossipChannels -> GraphStates],
          stored \in [GossipChannels -> [Directions -> StoredTimestamps]] :
          /\ edgeExists = {c \in GossipChannels : status[c] = "live"}
          /\ zombieIndex = {c \in GossipChannels : status[c] = "zombie"}
          /\ edgeTimestamps =
                 [c \in GossipChannels |->
                     IF status[c] = "live" THEN stored[c]
                     ELSE [d \in Directions |-> 0]]

StaleSpec == StaleInit /\ [][StaleNext]_vars

(***************************************************************************)
(* The callers of AddNode, AddEdge and UpdateEdge: each sends its          *)
(* routingMsg on networkUpdates or sees quit closed, then receives the     *)
(* answer on its err channel or sees quit closed.                          *)
(***************************************************************************)

MaxCalls == 2

ApiCall(api, msg) ==
    [api |-> api, msg |-> msg, pc |-> "send", job |-> 0, ret |-> "none"]

\* case r.networkUpdates <- rMsg, against the receive of the networkHandler
CallReceived(i) ==
    /\ apiCalls[i].pc = "send"
    /\ receiveUpdate(apiCalls[i].msg)
    /\ apiCalls' = [apiCalls EXCEPT ![i].pc = "await", ![i].job = Len(jobs) + 1]
    /\ UNCHANGED blockStreams
    /\ UNCHANGED <<sweeperVars, chainVars, payVars, queryVars, classVars, stopVars, syncVars, zombieVars, startVars>>

\* case <-r.quit of the outer select
CallSendQuit(i) ==
    /\ apiCalls[i].pc = "send"
    /\ routerQuit
    /\ apiCalls' = [apiCalls EXCEPT ![i].pc = "returned",
                                    ![i].ret = "ErrRouterShuttingDown"]
    /\ UNCHANGED blockStreams
    /\ UNCHANGED <<sweeperVars, lifeVars, chainVars, gossipVars, payVars,
                   queryVars, classVars, stopVars, syncVars, zombieVars, startVars>>

\* case err := <-rMsg.err of the inner select
CallAnswered(i) ==
    /\ apiCalls[i].pc = "await"
    /\ jobs[apiCalls[i].job].err # "none"
    /\ apiCalls' = [apiCalls EXCEPT ![i].pc = "returned",
                                    ![i].ret = jobs[apiCalls[i].job].err]
    /\ UNCHANGED blockStreams
    /\ UNCHANGED <<sweeperVars, lifeVars, chainVars, gossipVars, payVars,
                   queryVars, classVars, stopVars, syncVars, zombieVars, startVars>>

\* case <-r.quit of the inner select
CallAwaitQuit(i) ==
    /\ apiCalls[i].pc = "await"
    /\ routerQuit
    /\ apiCalls' = [apiCalls EXCEPT ![i].pc = "returned",
                                    ![i].ret = "ErrRouterShuttingDown"]
    /\ UNCHANGED blockStreams
    /\ UNCHANGED <<sweeperVars, lifeVars, chainVars, gossipVars, payVars,
                   queryVars, classVars, stopVars, syncVars, zombieVars, startVars>>

(***************************************************************************)
(* The calls over a router that shuts down                                 *)
(***************************************************************************)

LightningNode == [kind |-> "node", chanID |-> 0, dir |-> 0, LastUpdate |-> 1]

\* AddNode, AddEdge and UpdateEdge with a message each
GraphCalls ==
    {ApiCall("AddNode", LightningNode)} \cup
    {ApiCall("AddEdge", ChannelEdgeInfo(c)) : c \in GossipChannels} \cup
    {ApiCall("UpdateEdge", ChannelEdgePolicy(c, 1, t)) :
        c \in GossipChannels, t \in Timestamps}

\* a caller enters AddNode, AddEdge or UpdateEdge and reaches the select
GraphCall(call) ==
    /\ Len(apiCalls) < MaxCalls
    /\ apiCalls' = Append(apiCalls, call)
    /\ UNCHANGED <<blockStreams, classVars, stopVars, syncVars, zombieVars, startVars>>
    /\ UNCHANGED <<sweeperVars, lifeVars, chainVars, gossipVars, payVars,
                   queryVars, stopVars, syncVars, zombieVars, startVars>>

\* processUpdate, LightningNode: assertNodeAnnFreshness answers Ignored for
\* a node without channel, Outdated for an old timestamp, else the node is
\* added
NodeAnswers == {"nil", "ErrIgnored", "ErrOutdated"}

ProcessNode(j, err) ==
    /\ jobs[j].pc = "processUpdate"
    /\ jobs[j].msg.kind = "node"
    /\ jobs' = [jobs EXCEPT ![j].pc = "SignalDependants", ![j].err = err]
    /\ UNCHANGED <<lifeVars, chanAnnFinSignal, channelEdgeMtx, edgeExists,
                   edgeTimestamps, written>>
    /\ UNCHANGED exceptGossip

\* the chain view, which Stop has told to stop, closes its block streams
StreamsClose ==
    /\ routerStopped
    /\ ~assumeChannelValid
    /\ blockStreams = "open"
    /\ blockStreams' = "closed"
    /\ UNCHANGED <<apiCalls, classVars, stopVars, syncVars, zombieVars, startVars>>
    /\ UNCHANGED <<sweeperVars, lifeVars, chainVars, gossipVars, payVars,
                   queryVars, stopVars, syncVars, zombieVars, startVars>>

\* case chainUpdate, ok := <-r.newBlocks, or <-r.staleBlocks, with !ok
HandlerStreamClosed ==
    /\ HandlerIdle
    /\ blockStreams = "closed"
    /\ networkHandler' = "exited"
    /\ UNCHANGED <<routerStarted, routerStopped, routerQuit>>
    /\ UNCHANGED <<sweeperVars, chainVars, gossipVars, payVars, queryVars,
                   callVars, classVars, stopVars, syncVars, zombieVars, startVars>>

ShutdownNext ==
    \/ \E startOk \in BOOLEAN : RouterStart(startOk)
    \/ \E call \in GraphCalls : GraphCall(call)
    \/ \E i \in DOMAIN apiCalls : CallReceived(i)
    \/ \E i \in DOMAIN apiCalls : CallSendQuit(i)
    \/ \E j \in DOMAIN jobs : JobProceed(j)
    \/ \E j \in DOMAIN jobs : JobShutdown(j)
    \/ \E j \in DOMAIN jobs, err \in NodeAnswers : ProcessNode(j, err)
    \/ \E j \in DOMAIN jobs, valid \in BOOLEAN : ProcessInfoCheck(j, valid)
    \/ \E j \in DOMAIN jobs, filterOk \in BOOLEAN : ProcessInfoAdd(j, filterOk)
    \/ \E j \in DOMAIN jobs : ProcessPolicyLock(j)
    \/ \E j \in DOMAIN jobs : ProcessPolicyUpdate(j)
    \/ \E j \in DOMAIN jobs : JobSignal(j)
    \/ \E i \in DOMAIN apiCalls : CallAnswered(i)
    \/ \E i \in DOMAIN apiCalls : CallAwaitQuit(i)
    \/ \E chainViewStopOk \in BOOLEAN : RouterStop(chainViewStopOk)
    \/ StreamsClose
    \/ HandlerQuit
    \/ HandlerStreamClosed

\* the router from New, the sweeper never started
ShutdownInit == SweeperUnused /\ RouterInit

\* every goroutine that can take a step takes one: the callers at their
\* selects, the networkHandler at its select, the goroutines of the jobs
ShutdownFairness ==
    /\ \A i \in 1..MaxCalls :
          /\ WF_vars(i \in DOMAIN apiCalls /\ CallReceived(i))
          /\ WF_vars(i \in DOMAIN apiCalls /\ CallSendQuit(i))
          /\ WF_vars(i \in DOMAIN apiCalls /\ CallAnswered(i))
          /\ WF_vars(i \in DOMAIN apiCalls /\ CallAwaitQuit(i))
    /\ \A j \in 1..MaxJobs :
          /\ WF_vars(j \in DOMAIN jobs /\ JobProceed(j))
          /\ WF_vars(j \in DOMAIN jobs /\ JobShutdown(j))
          /\ WF_vars(j \in DOMAIN jobs /\ \E err \in NodeAnswers : ProcessNode(j, err))
          /\ WF_vars(j \in DOMAIN jobs /\ \E valid \in BOOLEAN : ProcessInfoCheck(j, valid))
          /\ WF_vars(j \in DOMAIN jobs /\ \E filterOk \in BOOLEAN : ProcessInfoAdd(j, filterOk))
          /\ WF_vars(j \in DOMAIN jobs /\ ProcessPolicyLock(j))
          /\ WF_vars(j \in DOMAIN jobs /\ ProcessPolicyUpdate(j))
          /\ WF_vars(j \in DOMAIN jobs /\ JobSignal(j))
    /\ WF_vars(HandlerQuit)
    /\ WF_vars(HandlerStreamClosed)

ShutdownSpec == ShutdownInit /\ [][ShutdownNext]_vars /\ ShutdownFairness

(***************************************************************************)
(* processSendError                                                        *)
(***************************************************************************)

MaxHops == 2

Vertices == 1..3

Hop(i, node) == [PubKeyBytes |-> node, ChannelID |-> i, AmtToForward |-> MaxHops - i]

\* the routes from the source over one to MaxHops hops; the i-th hop goes
\* over channel i and forwards one unit less than it received
Routes ==
    {[SourcePubKey |-> SourcePubKey, TotalAmount |-> MaxHops,
      Hops |-> [i \in 1..n |-> Hop(i, nodes[i])]] :
        n \in 1..MaxHops, nodes \in [1..MaxHops -> Vertices]}

\* the loop of getFailedEdge from hop i on
RECURSIVE failedEdgeFrom(_, _, _, _, _)
failedEdgeFrom(rt, errSource, i, fromNode, amt) ==
    IF i > Len(rt.Hops)
    THEN [edge |-> NoEdge, amt |-> 0, err |-> "error"]
    ELSE LET hop == rt.Hops[i]
             toNode == hop.PubKeyBytes
             finalHopFailing == i = Len(rt.Hops) /\ errSource = toNode
         IN IF errSource = fromNode \/ finalHopFailing
            THEN [edge |-> [from |-> fromNode, to |-> toNode,
                            channel |-> hop.ChannelID],
                  amt |-> amt, err |-> "nil"]
            ELSE failedEdgeFrom(rt, errSource, i + 1, toNode, hop.AmtToForward)

\* the first hop, whoever sent the error
failedEdgeOfSource(rt, errSource) ==
    failedEdgeFrom(rt, rt.SourcePubKey, 1, rt.SourcePubKey, rt.TotalAmount)

getFailedEdge(rt, errSource) ==
    failedEdgeFrom(rt, errSource, 1, rt.SourcePubKey, rt.TotalAmount)

\* the cases of the switch that return true
TerminalFailures ==
    {"FailUnknownPaymentHash", "FailIncorrectPaymentAmount",
     "FailFinalIncorrectCltvExpiry", "FailFinalIncorrectHtlcAmount",
     "FailFinalExpiryTooSoon", "FailInvalidRealm", "FailInvalidOnionVersion",
     "FailInvalidOnionHmac", "FailInvalidOnionKey"}

\* the cases that call processChannelUpdateAndRetry
PolicyFailures ==
    {"FailAmountBelowMinimum", "FailFeeInsufficient", "FailIncorrectCltvExpiry"}

\* the cases that call applyChannelUpdate
UpdateFailures ==
    PolicyFailures \cup
    {"FailExpiryTooSoon", "FailChannelDisabled", "FailTemporaryChannelFailure"}

\* the cases that report the vertex alone
VertexFailures ==
    {"FailRequiredNodeFeatureMissing", "FailRequiredChannelFeatureMissing",
     "FailTemporaryNodeFailure", "FailPermanentNodeFailure", "FailExpiryTooFar"}

\* the cases that report the edge alone
EdgeFailures == {"FailUnknownNextPeer", "FailPermanentChannelFailure"}

\* a failure message of a type the switch has no case for
UnlistedFailures == {"FailInvalidOnionPayload"}

FailureMessages ==
    TerminalFailures \cup UpdateFailures \cup VertexFailures \cup EdgeFailures
        \cup UnlistedFailures

NoUpdate == [chanID |-> 0, dir |-> 0, timestamp |-> 0, sigOk |-> TRUE]

\* the channel update of the failure message; only FailTemporaryChannelFailure
\* holds a pointer, which may be nil
ChannelUpdates(kind) ==
    IF kind \notin UpdateFailures THEN {NoUpdate}
    ELSE {[chanID |-> c, dir |-> d, timestamp |-> t, sigOk |-> ok] :
             c \in GossipChannels, d \in Directions, t \in Timestamps,
             ok \in BOOLEAN}
         \cup (IF kind = "FailTemporaryChannelFailure" THEN {NoUpdate} ELSE {})

EdgeFailure(e, amt) == [report |-> "EdgeFailure", edge |-> e, amt |-> amt]

EdgePolicyFailure(e) == [report |-> "EdgePolicyFailure", edge |-> e, amt |-> 0]

VertexFailure(v) ==
    [report |-> "VertexFailure",
     edge |-> [from |-> v, to |-> 0, channel |-> 0], amt |-> 0]

\* processChannelUpdateAndRetry after applyChannelUpdate
processChannelUpdateAndRetry(failedEdge, updateOk) ==
    (IF ~updateOk THEN <<EdgeFailure(failedEdge, 0)>> ELSE <<>>)
        \o <<EdgePolicyFailure(failedEdge)>>

\* the reports of the cases of the switch that return false
reportsOf(kind, failed, errVertex, updateOk) ==
    IF kind \in PolicyFailures
    THEN processChannelUpdateAndRetry(failed.edge, updateOk)
    ELSE IF kind = "FailExpiryTooSoon" \/ kind \in VertexFailures
    THEN <<VertexFailure(errVertex)>>
    ELSE IF kind = "FailChannelDisabled" \/ kind = "FailUnknownNextPeer"
    THEN <<EdgeFailure(failed.edge, 0)>>
    ELSE IF kind = "FailTemporaryChannelFailure"
    THEN <<EdgeFailure(failed.edge, failed.amt)>>
    ELSE IF kind = "FailPermanentChannelFailure"
    THEN <<EdgeFailure(failed.edge, 0),
           EdgeFailure([from |-> failed.edge.to, to |-> failed.edge.from,
                        channel |-> failed.edge.channel], 0)>>
    ELSE <<>>

\* the case of FailPermanentChannelFailure taken for the default
retriedWithoutPermanent ==
    UpdateFailures \cup VertexFailures \cup {"FailUnknownNextPeer"}

\* the cases of the switch that return false
retriedFailures == UpdateFailures \cup VertexFailures \cup EdgeFailures

\* the attempt was sent and the dispatcher delivers its failure
AttemptFails(rt, errSource, kind, update) ==
    /\ networkHandler # "none"
    /\ fwdError = NoError
    /\ fwdError' = [kind |-> kind, rt |-> rt, errSource |-> errSource,
                    update |-> update]
    /\ classifier' = [classifier EXCEPT !.pc = "processSendError"]
    /\ sends' = 1
    /\ UNCHANGED <<apiCalls, blockStreams, reports>>
    /\ UNCHANGED <<sweeperVars, lifeVars, chainVars, gossipVars, payVars,
                   queryVars, stopVars, syncVars, zombieVars, startVars>>

\* the failure of the one attempt that is followed
AttemptFailure ==
    /\ fwdError = NoError
    /\ \E rt \in Routes, errSource \in Vertices, kind \in FailureMessages :
          \E update \in ChannelUpdates(kind) :
             AttemptFails(rt, errSource, kind, update)

\* !IsError(err, ErrIgnored, ErrOutdated) taken for err != nil
anyErrorFails(err) == err = "nil"

\* err != nil && !IsError(err, ErrIgnored, ErrOutdated) returns false
updateApplied(err) == err \in {"nil", "ErrIgnored", "ErrOutdated"}

\* processSendError up to the return or, for a failure with a channel update
\* that applyChannelUpdate finds valid, up to the call of UpdateEdge
ProcessSendError ==
    /\ classifier.pc = "processSendError"
    /\ LET kind == fwdError.kind
           update == fwdError.update
           failed == getFailedEdge(fwdError.rt, fwdError.errSource)
           known == update.chanID \in edgeExists
       IN IF failed.err # "nil" \/ kind \notin retriedFailures
          THEN /\ classifier' = [classifier EXCEPT !.pc = "returned",
                                                   !.failed = failed,
                                                   !.terminal = TRUE]
               /\ UNCHANGED <<apiCalls, reports>>
          ELSE IF kind \in UpdateFailures /\ update # NoUpdate /\ known
                     /\ update.sigOk
          THEN /\ Len(apiCalls) < MaxCalls
               /\ apiCalls' = Append(apiCalls,
                     ApiCall("UpdateEdge",
                             ChannelEdgePolicy(update.chanID, update.dir,
                                               update.timestamp)))
               /\ classifier' = [classifier EXCEPT !.pc = "UpdateEdge",
                                                   !.failed = failed,
                                                   !.call = Len(apiCalls) + 1]
               /\ UNCHANGED reports
          ELSE LET updateOk == kind \notin UpdateFailures \/ update = NoUpdate
               IN /\ classifier' = [classifier EXCEPT !.pc = "returned",
                                                      !.failed = failed,
                                                      !.updateOk = updateOk]
                  /\ reports' = reports \o
                        reportsOf(kind, failed, fwdError.errSource, updateOk)
                  /\ UNCHANGED apiCalls
    /\ UNCHANGED <<blockStreams, fwdError, sends>>
    /\ UNCHANGED <<sweeperVars, lifeVars, chainVars, gossipVars, payVars,
                   queryVars, stopVars, syncVars, zombieVars, startVars>>

\* processSendError from the return of UpdateEdge to its own return
UpdateEdgeReturned ==
    /\ classifier.pc = "UpdateEdge"
    /\ apiCalls[classifier.call].pc = "returned"
    /\ LET updateOk == updateApplied(apiCalls[classifier.call].ret)
           failed == classifier.failed
       IN /\ classifier' = [classifier EXCEPT !.pc = "returned",
                                              !.updateOk = updateOk]
          /\ reports' = reports \o
                reportsOf(fwdError.kind, failed, fwdError.errSource, updateOk)
    /\ UNCHANGED <<apiCalls, blockStreams, fwdError, sends>>
    /\ UNCHANGED <<sweeperVars, lifeVars, chainVars, gossipVars, payVars,
                   queryVars, stopVars, syncVars, zombieVars, startVars>>

\* the payment lifecycle after the classifier: a terminal failure ends the
\* payment, any other resets the attempt and the loop sends again
LifecycleContinues ==
    /\ classifier.pc = "returned"
    /\ classifier' = [classifier EXCEPT !.pc =
                         IF classifier.terminal THEN "failed" ELSE "retried"]
    /\ sends' = IF classifier.terminal THEN sends ELSE sends + 1
    /\ UNCHANGED <<apiCalls, blockStreams, fwdError, reports>>
    /\ UNCHANGED <<sweeperVars, lifeVars, chainVars, gossipVars, payVars,
                   queryVars, stopVars, syncVars, zombieVars, startVars>>

\* time.Since(e.LastUpdate) >= chanExpiry, for a policy that is there
edgeZombie(timestamp) == timestamp # 0 /\ Now - timestamp >= ChannelPruneExpiry

\* case <-graphPruneTicker.C: pruneZombieChans deletes the channels whose two
\* policies are both older than ChannelPruneExpiry; the store keeps them in
\* its zombie index
GraphPruneTick ==
    /\ HandlerIdle
    /\ LET chansToPrune ==
               {c \in edgeExists : \A d \in Directions :
                                      edgeZombie(edgeTimestamps[c][d])}
       IN /\ chansToPrune # {}
          /\ edgeExists' = edgeExists \ chansToPrune
          /\ zombieIndex' = zombieIndex \cup chansToPrune
          /\ edgeTimestamps' =
                [c \in GossipChannels |->
                    IF c \in chansToPrune THEN [d \in Directions |-> 0]
                    ELSE edgeTimestamps[c]]
    /\ UNCHANGED <<assumeChannelValid, staleQuery>>
    /\ UNCHANGED <<jobs, chanAnnFinSignal, channelEdgeMtx, written>>
    /\ UNCHANGED <<sweeperVars, lifeVars, chainVars, payVars, callVars,
                   classVars, stopVars, syncVars, zombieVars, startVars>>

ClassifyNext ==
    \/ \E startOk \in BOOLEAN : RouterStart(startOk)
    \/ AttemptFailure
    \/ ProcessSendError
    \/ \E i \in DOMAIN apiCalls : CallReceived(i)
    \/ \E i \in DOMAIN apiCalls : CallSendQuit(i)
    \/ \E j \in DOMAIN jobs : JobProceed(j)
    \/ \E j \in DOMAIN jobs : ProcessPolicyLock(j)
    \/ \E j \in DOMAIN jobs : ProcessPolicyUpdate(j)
    \/ \E j \in DOMAIN jobs : JobSignal(j)
    \/ \E i \in DOMAIN apiCalls : CallAnswered(i)
    \/ \E i \in DOMAIN apiCalls : CallAwaitQuit(i)
    \/ UpdateEdgeReturned
    \/ LifecycleContinues
    \/ GraphPruneTick
    \/ \E chainViewStopOk \in BOOLEAN : RouterStop(chainViewStopOk)
    \/ HandlerQuit

\* the router from New over a graph store that holds each channel as live
\* with both policies of the oldest timestamp, as a zombie, or not at all
ClassifyInit ==
    /\ SweeperUnused
    /\ RouterIdle
    /\ control = [h \in Hashes |-> NoPayment]
    /\ htlcs = {}
    /\ nextPaymentID = NumHashes + 1
    /\ assumeChannelValid = FALSE
    /\ \E status \in [GossipChannels -> GraphStates] :
          /\ edgeExists = {c \in GossipChannels : status[c] = "live"}
          /\ zombieIndex = {c \in GossipChannels : status[c] = "zombie"}
          /\ edgeTimestamps =
                 [c \in GossipChannels |->
                     [d \in Directions |-> IF status[c] = "live" THEN 1 ELSE 0]]

ClassifySpec == ClassifyInit /\ [][ClassifyNext]_vars

(***************************************************************************)
(* Payments.  SendPayment, SendPaymentAsync and SendToRoute register the   *)
(* payment hash with the control tower and run a paymentLifecycle; Start   *)
(* runs one for every payment the control tower reports in flight.  The    *)
(* control tower, the dispatcher and paymentLifecycle.resumePayment are    *)
(* not part of the sources and follow the specification.  Payments are     *)
(* made through a router that has been started.                            *)
(***************************************************************************)
APIs == {"SendPayment", "SendPaymentAsync", "SendToRoute"}

\* NewPaymentSession for SendPayment*, NewPaymentSessionForRoute for
\* SendToRoute, which yields its one route
sessionFor(api) == IF api = "SendToRoute" THEN 1 ELSE freshSession

\* control tower: InitPayment fails for a payment that is in flight
InitPayment(hash) ==
    IF control[hash].status = "InFlight" THEN "ErrPaymentInFlight" ELSE "nil"

\* if err != nil { return nil, err } after InitPayment
initIgnored(err) == FALSE

initFailed(err) == err # "nil"

Returned(api, hash, err) ==
    [Lifecycle(api, hash, 0, 0) EXCEPT !.pc = "Done", !.err = err]

\* SendPayment, SendPaymentAsync, SendToRoute up to the call of resumePayment:
\* InitPayment, and GetBestBlock in sendPayment
PaymentCall(api, hash, bestBlockOk) ==
    /\ networkHandler # "none"
    /\ Len(lifecycles) < MaxLifecycles
    /\ LET err == InitPayment(hash)
       IN IF initFailed(err)
          THEN /\ lifecycles' = Append(lifecycles, Returned(api, hash, err))
               /\ UNCHANGED control
          ELSE /\ control' = [control EXCEPT ![hash] = InFlightPayment(0)]
               /\ lifecycles' = Append(lifecycles,
                     IF bestBlockOk
                     THEN Lifecycle(api, hash, 0, sessionFor(api))
                     ELSE Returned(api, hash, "error"))
    /\ UNCHANGED <<lifeVars, htlcs, nextPaymentID>>
    /\ UNCHANGED exceptPayments

\* resumePayment without an attempt: the payment fails on a timeout or when
\* the session has no route left; otherwise the next payment id is taken and
\* the attempt registered with the control tower
RequestRoute(l, timeout) ==
    /\ lifecycles[l].pc = "resumePayment"
    /\ lifecycles[l].attempt = 0
    /\ LET p == lifecycles[l]
       IN IF timeout \/ p.routes = 0
          THEN /\ control' = [control EXCEPT ![p.hash].status = "Failed"]
               /\ lifecycles' = [lifecycles EXCEPT ![l].pc = "Done",
                        ![l].err = IF timeout THEN "timeout" ELSE "noRoute"]
               /\ UNCHANGED nextPaymentID
          ELSE /\ nextPaymentID \in PaymentIDs
               /\ nextPaymentID' = nextPaymentID + 1
               /\ control' = [control EXCEPT ![p.hash].attempt = nextPaymentID]
               /\ lifecycles' = [lifecycles EXCEPT ![l].pc = "SendHTLC",
                        ![l].attempt = nextPaymentID,
                        ![l].routes = @ - 1,
                        ![l].registered = @ + 1]
    /\ UNCHANGED <<lifeVars, htlcs>>
    /\ UNCHANGED exceptPayments

SendOutcomes == {"nil", "retry", "terminal"}

\* SendHTLC: the HTLC is in flight, or the dispatcher returns an error that
\* ends the payment or makes the lifecycle try the next route
SendHTLC(l, outcome) ==
    /\ lifecycles[l].pc = "SendHTLC"
    /\ LET p == lifecycles[l]
       IN /\ htlcs' = IF outcome = "nil"
                      THEN htlcs \cup {[id |-> p.attempt, hash |-> p.hash]}
                      ELSE htlcs
          /\ control' = IF outcome = "terminal"
                        THEN [control EXCEPT ![p.hash].status = "Failed"]
                        ELSE control
          /\ lifecycles' = [lifecycles EXCEPT ![l] =
                 [@ EXCEPT !.sent = @ + 1,
                           !.pc = IF outcome = "terminal" THEN "Done"
                                  ELSE "resumePayment",
                           !.err = IF outcome = "terminal" THEN "error" ELSE @,
                           !.lastError = IF outcome = "retry" THEN p.attempt
                                         ELSE @,
                           !.attempt = IF outcome = "nil" THEN @ ELSE 0]]
    /\ UNCHANGED <<lifeVars, nextPaymentID>>
    /\ UNCHANGED exceptPayments

\* GetPaymentResult of the attempt: PaymentIDNotFound drops the attempt
GetPaymentResult(l) ==
    /\ lifecycles[l].pc = "resumePayment"
    /\ lifecycles[l].attempt # 0
    /\ LET p == lifecycles[l]
           found == \E x \in htlcs : x.id = p.attempt
       IN lifecycles' = [lifecycles EXCEPT ![l] =
             [@ EXCEPT !.queried = @ \cup {p.attempt},
                       !.pc = IF found THEN "AwaitingResult" ELSE @,
                       !.attempt = IF found THEN @ ELSE 0]]
    /\ UNCHANGED <<lifeVars, control, htlcs, nextPaymentID>>
    /\ UNCHANGED exceptPayments

PaymentResults == {"success", "retry", "terminal"}

\* the dispatcher delivers the result of the attempt, whose HTLC is then no
\* longer in flight: the payment succeeds, fails, or goes on with the next
\* route
ReceiveResult(l, result) ==
    /\ lifecycles[l].pc = "AwaitingResult"
    /\ LET p == lifecycles[l]
       IN /\ htlcs' = {x \in htlcs : x.id # p.attempt}
          /\ control' =
                IF result = "success"
                THEN [control EXCEPT ![p.hash].status = "Succeeded"]
                ELSE IF result = "terminal"
                THEN [control EXCEPT ![p.hash].status = "Failed"]
                ELSE control
          /\ lifecycles' = [lifecycles EXCEPT ![l] =
                 [@ EXCEPT !.pc = IF result = "retry" THEN "resumePayment"
                                  ELSE "Done",
                           !.err = IF result = "success" THEN "nil"
                                   ELSE IF result = "terminal" THEN "error"
                                   ELSE @,
                           !.failure = IF result = "terminal" THEN p.attempt
                                       ELSE @,
                           !.lastError = IF result = "success" THEN @
                                         ELSE p.attempt,
                           !.attempt = IF result = "retry" THEN 0 ELSE @]]
    /\ UNCHANGED <<lifeVars, nextPaymentID>>
    /\ UNCHANGED exceptPayments

\* case <-r.quit while the lifecycle waits for the result
LifecycleQuit(l) ==
    /\ lifecycles[l].pc = "AwaitingResult"
    /\ routerQuit
    /\ lifecycles' = [lifecycles EXCEPT ![l].pc = "Done",
                                        ![l].err = "ErrRouterShuttingDown"]
    /\ UNCHANGED <<lifeVars, control, htlcs, nextPaymentID>>
    /\ UNCHANGED exceptPayments

PaymentsNext ==
    \/ \E startOk \in BOOLEAN : RouterStart(startOk)
    \/ \E api \in APIs, hash \in Hashes, bestBlockOk \in BOOLEAN :
          PaymentCall(api, hash, bestBlockOk)
    \/ \E l \in DOMAIN lifecycles, timeout \in BOOLEAN : RequestRoute(l, timeout)
    \/ \E l \in DOMAIN lifecycles, outcome \in SendOutcomes : SendHTLC(l, outcome)
    \/ \E l \in DOMAIN lifecycles : GetPaymentResult(l)
    \/ \E l \in DOMAIN lifecycles, result \in PaymentResults :
          ReceiveResult(l, result)
    \/ \E l \in DOMAIN lifecycles : LifecycleQuit(l)
    \/ \E chainViewStopOk \in BOOLEAN : RouterStop(chainViewStopOk)

\* what a previous run has left: per payment hash no payment, a payment in
\* flight without an attempt, or one with an attempt whose HTLC the
\* dispatcher knows or does not know
StoredPayments ==
    [Hashes -> {"none", "noAttempt", "unknownAttempt", "inFlightAttempt"}]

\* the router from New over such a control tower, the sweeper never started
PaymentsInit ==
    /\ SweeperUnused
    /\ RouterNew
    /\ nextPaymentID = NumHashes + 1
    /\ \E stored \in StoredPayments :
          /\ control = [h \in Hashes |->
                          IF stored[h] = "none" THEN NoPayment
                          ELSE IF stored[h] = "noAttempt" THEN InFlightPayment(0)
                          ELSE InFlightPayment(h)]
          /\ htlcs = {[id |-> h, hash |-> h] :
                          h \in {g \in Hashes : stored[g] = "inFlightAttempt"}}

PaymentsSpec == PaymentsInit /\ [][PaymentsNext]_vars

(***************************************************************************)
(* SendToRoute                                                             *)
(***************************************************************************)

\* the no-route error handed on as it is
returnedAsIs(err, failure, lastError) == ErrorValue(err, failure)

\* SendToRoute after sendPayment: a no-route error is replaced by the error
\* it carries
structuredError(err, failure, lastError) ==
    IF err = "noRoute"
    THEN IF lastError = 0
         THEN ErrorValue("failure message missing", 0)
         ELSE ErrorValue("error", lastError)
    ELSE ErrorValue(err, failure)

\* SendToRoute returns; every call followed here is one of SendToRoute
SendToRouteReturns(l) ==
    /\ lifecycles[l].pc = "Done"
    /\ ~lifecycles[l].resumed
    /\ lifecycles' = [lifecycles EXCEPT
           ![l].pc = "Returned",
           ![l].ret = structuredError(lifecycles[l].err, lifecycles[l].failure,
                                      lifecycles[l].lastError)]
    /\ UNCHANGED <<lifeVars, control, htlcs, nextPaymentID>>
    /\ UNCHANGED exceptPayments

RouteNext ==
    \/ \E startOk \in BOOLEAN : RouterStart(startOk)
    \/ \E hash \in Hashes, bestBlockOk \in BOOLEAN :
          PaymentCall("SendToRoute", hash, bestBlockOk)
    \/ \E l \in DOMAIN lifecycles : RequestRoute(l, FALSE)
    \/ \E l \in DOMAIN lifecycles, outcome \in SendOutcomes : SendHTLC(l, outcome)
    \/ \E l \in DOMAIN lifecycles : GetPaymentResult(l)
    \/ \E l \in DOMAIN lifecycles, result \in PaymentResults :
          ReceiveResult(l, result)
    \/ \E l \in DOMAIN lifecycles : LifecycleQuit(l)
    \/ \E l \in DOMAIN lifecycles : SendToRouteReturns(l)
    \/ \E chainViewStopOk \in BOOLEAN : RouterStop(chainViewStopOk)

\* the router from New over a control tower without payments
RouteInit == SweeperUnused /\ RouterInit

RouteSpec == RouteInit /\ [][RouteNext]_vars

(***************************************************************************)
(* Stop, call by call.  A call swaps stopped from 0 to 1 or returns nil at *)
(* once; the call that swapped it stops the chain view (router), closes    *)
(* quit and waits for the goroutines.                                      *)
(***************************************************************************)
MaxStopCalls == 3

StopCall(component, pc, ret) == [component |-> component, pc |-> pc, ret |-> ret]

\* ChannelRouter.Stop: if !atomic.CompareAndSwapUint32(&r.stopped, 0, 1)
RouterStopCalled ==
    /\ routerStarted
    /\ Len(stopCalls) < MaxStopCalls
    /\ routerStopped' = TRUE
    /\ stopCalls' = Append(stopCalls,
                           IF routerStopped
                           THEN StopCall("router", "returned", "nil")
                           ELSE StopCall("router", "ChainView.Stop", "none"))
    /\ UNCHANGED <<routerStarted, routerQuit, networkHandler, quitCloses>>
    /\ UNCHANGED <<sweeperVars, chainVars, gossipVars, payVars, queryVars,
                   callVars, classVars, syncVars, zombieVars, startVars>>

\* ChannelRouter.Stop: the chain view is stopped unless AssumeChannelValid is
\* set, and its error is returned
RouterStopChainView(i, chainViewStopOk) ==
    /\ stopCalls[i].pc = "ChainView.Stop"
    /\ assumeChannelValid => chainViewStopOk
    /\ stopCalls' = [stopCalls EXCEPT ![i] =
                        IF chainViewStopOk
                        THEN StopCall("router", "close", "none")
                        ELSE StopCall("router", "returned", "error")]
    /\ UNCHANGED quitCloses
    /\ UNCHANGED <<sweeperVars, lifeVars, chainVars, gossipVars, payVars,
                   queryVars, callVars, classVars, syncVars, zombieVars, startVars>>

\* ChannelRouter.Stop: close(r.quit)
RouterStopClose(i) ==
    /\ stopCalls[i].pc = "close"
    /\ stopCalls[i].component = "router"
    /\ routerQuit' = TRUE
    /\ quitCloses' = [quitCloses EXCEPT !["router"] = @ + 1]
    /\ stopCalls' = [stopCalls EXCEPT ![i].pc = "wg.Wait"]
    /\ UNCHANGED <<routerStarted, routerStopped, networkHandler>>
    /\ UNCHANGED <<sweeperVars, chainVars, gossipVars, payVars, queryVars,
                   callVars, classVars, syncVars, zombieVars, startVars>>

\* ChannelRouter.Stop: r.wg.Wait() and return nil
RouterStopWait(i) ==
    /\ stopCalls[i].pc = "wg.Wait"
    /\ stopCalls[i].component = "router"
    /\ networkHandler # "running"
    /\ activeJobs = {}
    /\ stopCalls' = [stopCalls EXCEPT ![i] = StopCall("router", "returned", "nil")]
    /\ UNCHANGED quitCloses
    /\ UNCHANGED <<sweeperVars, lifeVars, chainVars, gossipVars, payVars,
                   queryVars, callVars, classVars, syncVars, zombieVars, startVars>>

\* what a step of a Stop call of the sweeper leaves alone
exceptStop == <<started, collector, pendingInputs, timer, currentOutputScript,
                relayFeeRate, bestHeight, inputClusters, inputLists,
                sweepFeeRate, store, lastTx, published, ntfnReg, resultChans,
                republished, publishErrors, blocks, batchTimers, batchRates, batchInputs,
                startCall, accessed>>

exceptStopCalls == <<lifeVars, chainVars, gossipVars, payVars, queryVars,
                     callVars, classVars, syncVars, zombieVars, startVars>>

\* UtxoSweeper.Stop: if !atomic.CompareAndSwapUint32(&s.stopped, 0, 1)
SweeperStopCalled ==
    /\ started
    /\ Len(stopCalls) < MaxStopCalls
    /\ stopped' = TRUE
    /\ stopCalls' = Append(stopCalls,
                           IF stopped
                           THEN StopCall("sweeper", "returned", "nil")
                           ELSE StopCall("sweeper", "close", "none"))
    /\ UNCHANGED <<quit, quitCloses>>
    /\ UNCHANGED <<exceptStop, exceptStopCalls>>

\* UtxoSweeper.Stop: close(s.quit)
SweeperStopClose(i) ==
    /\ stopCalls[i].pc = "close"
    /\ stopCalls[i].component = "sweeper"
    /\ quit' = TRUE
    /\ quitCloses' = [quitCloses EXCEPT !["sweeper"] = @ + 1]
    /\ stopCalls' = [stopCalls EXCEPT ![i].pc = "wg.Wait"]
    /\ UNCHANGED stopped
    /\ UNCHANGED <<exceptStop, exceptStopCalls>>

\* UtxoSweeper.Stop: s.wg.Wait() and return nil
SweeperStopWait(i) ==
    /\ stopCalls[i].pc = "wg.Wait"
    /\ stopCalls[i].component = "sweeper"
    /\ collector \in {"none", "exited"}
    /\ stopCalls' = [stopCalls EXCEPT ![i] = StopCall("sweeper", "returned", "nil")]
    /\ UNCHANGED <<stopped, quit, quitCloses>>
    /\ UNCHANGED <<exceptStop, exceptStopCalls>>

StopNext ==
    \/ \E startOk \in BOOLEAN : RouterStart(startOk)
    \/ SweeperStart
    \/ RouterStopCalled
    \/ \E i \in DOMAIN stopCalls, chainViewStopOk \in BOOLEAN :
          RouterStopChainView(i, chainViewStopOk)
    \/ \E i \in DOMAIN stopCalls : RouterStopClose(i)
    \/ \E i \in DOMAIN stopCalls : RouterStopWait(i)
    \/ SweeperStopCalled
    \/ \E i \in DOMAIN stopCalls : SweeperStopClose(i)
    \/ \E i \in DOMAIN stopCalls : SweeperStopWait(i)
    \/ StreamsClose
    \/ HandlerQuit
    \/ HandlerStreamClosed
    \/ CollectorQuit

\* router and sweeper from New, with or without AssumeChannelValid
StopInit ==
    /\ SweeperInit
    /\ RouterIdle
    /\ edgeExists = {}
    /\ edgeTimestamps = [c \in GossipChannels |-> [d \in Directions |-> 0]]
    /\ zombieIndex = {}
    /\ assumeChannelValid \in BOOLEAN
    /\ control = [h \in Hashes |-> NoPayment]
    /\ htlcs = {}
    /\ nextPaymentID = NumHashes + 1

StopSpec == StopInit /\ [][StopNext]_vars

(***************************************************************************)
(* Start without AssumeChannelValid, step by step from its call of         *)
(* syncGraphWithChain.  A block hash is its height and the branch it is    *)
(* on; the chain backend answers with the main branch.                     *)
(***************************************************************************)
MaxSyncDepth == 2          \* pruned blocks below the height at Start
MaxNewBlocks == 1          \* blocks the chain gains above the height at Start

SyncHeights == StartHeight - MaxSyncDepth .. StartHeight + MaxNewBlocks

BlockHash(height, branch) == [height |-> height, branch |-> branch]

\* Chain.GetBlockHash, for a height the chain has
GetBlockHash(height) == BlockHash(height, "main")

\* Chain.GetBestBlock
GetBestBlock == GetBlockHash(chainTip)

\* the prune logs a graph store may hold at Start: blocks of the main branch
\* and above them blocks of a branch that has gone stale
PruneLogs ==
    {[i \in 1..Len(SetToSeq(heights)) |->
         LET height == SetToSeq(heights)[i]
         IN BlockHash(height, IF height < fork THEN "main" ELSE "stale")] :
       heights \in SUBSET SyncHeights, fork \in SyncHeights \cup {StartHeight + MaxNewBlocks + 1}}

\* Graph.PruneTip: the latest block of the prune log
PruneTip == pruneLog[Len(pruneLog)]

\* PruneGraph: the prune log afterwards
pruned(hash) == Append(pruneLog, hash)

\* DisconnectBlockAtHeight: the prune log afterwards
disconnected(height) == SelectSeq(pruneLog, LAMBDA b : b.height < height)

tipHeight(log) == IF log = <<>> THEN 0 ELSE log[Len(log)].height

SyncReturned(err) == [sync EXCEPT !.pc = "returned", !.err = err]

\* Start up to its call of syncGraphWithChain: a graph never pruned gets the
\* best block as its prune tip
StartPruneTip(ok) ==
    /\ ~routerStarted
    /\ ~assumeChannelValid
    /\ sync.pc = "idle"
    /\ routerStarted' = TRUE
    /\ IF ~ok
       THEN /\ sync' = SyncReturned("error")
            /\ UNCHANGED <<pruneLog, pruneTip>>
       ELSE /\ sync' = [sync EXCEPT !.pc = "syncGraphWithChain"]
            /\ pruneLog' = IF pruneLog = <<>> THEN pruned(GetBestBlock)
                           ELSE pruneLog
            /\ pruneTip' = IF pruneLog = <<>> THEN chainTip ELSE pruneTip
    /\ UNCHANGED <<routerStopped, routerQuit, networkHandler, chainTip>>
    /\ UNCHANGED <<routerBestHeight, closedAt, topologyClients,
                   lastTopologyChange, outOfOrderBlock, reorg, storeErrors>>
    /\ UNCHANGED <<sweeperVars, gossipVars, payVars, queryVars, callVars,
                   classVars, stopVars, zombieVars, startVars>>

\* the chain gains a block
ChainExtends ==
    /\ chainTip < StartHeight + MaxNewBlocks
    /\ chainTip' = chainTip + 1
    /\ UNCHANGED <<pruneLog, sync>>
    /\ UNCHANGED <<sweeperVars, lifeVars, chainVars, gossipVars, payVars,
                   queryVars, callVars, classVars, stopVars, zombieVars, startVars>>

\* the prune tip is the best block read
inSync(height) == PruneTip = GetBlockHash(height)

\* syncGraphWithChain from GetBestBlock to the first GetBlockHash
SyncBegin(ok) ==
    /\ sync.pc = "syncGraphWithChain"
    /\ IF ~ok
       THEN /\ sync' = SyncReturned("error")
            /\ UNCHANGED routerBestHeight
       ELSE /\ routerBestHeight' = chainTip
            /\ sync' =
                  IF pruneLog = <<>> \/ inSync(chainTip)
                  THEN [SyncReturned("nil") EXCEPT !.bestHeight = chainTip]
                  ELSE IF PruneTip.height > chainTip
                  THEN [SyncReturned("error") EXCEPT !.bestHeight = chainTip]
                  ELSE [sync EXCEPT !.pc = "backward", !.bestHeight = chainTip]
    /\ UNCHANGED <<pruneLog, chainTip>>
    /\ UNCHANGED <<pruneTip, closedAt, topologyClients, lastTopologyChange,
                   outOfOrderBlock, reorg, storeErrors>>
    /\ UNCHANGED <<sweeperVars, lifeVars, gossipVars, payVars, queryVars,
                   callVars, classVars, stopVars, zombieVars, startVars>>

\* for !pruneHash.IsEqual(mainBlockHash): one block is disconnected
SyncDisconnect(ok) ==
    /\ sync.pc = "backward"
    /\ PruneTip # GetBlockHash(PruneTip.height)
    /\ IF ~ok
       THEN /\ sync' = SyncReturned("error")
            /\ UNCHANGED <<pruneLog, pruneTip, closedAt>>
       ELSE /\ pruneLog' = disconnected(PruneTip.height)
            /\ pruneTip' = tipHeight(pruneLog')
            /\ closedAt' = DisconnectBlockAtHeight(PruneTip.height)
            /\ sync' = IF pruneLog' = <<>>
                       THEN [SyncReturned("nil") EXCEPT !.disconnected = @ + 1]
                       ELSE [sync EXCEPT !.disconnected = @ + 1]
    /\ UNCHANGED chainTip
    /\ UNCHANGED <<routerBestHeight, topologyClients, lastTopologyChange,
                   outOfOrderBlock, reorg, storeErrors>>
    /\ UNCHANGED <<sweeperVars, lifeVars, gossipVars, payVars, queryVars,
                   callVars, classVars, stopVars, zombieVars, startVars>>

\* the walk starting one block too high
walkAbove(pruneHeight) == pruneHeight + 2

\* for nextHeight := pruneHeight + 1
walkFrom(pruneHeight) == pruneHeight + 1

\* the prune tip is on the main chain: the forward walk begins
SyncForward ==
    /\ sync.pc = "backward"
    /\ PruneTip = GetBlockHash(PruneTip.height)
    /\ sync' = [sync EXCEPT !.pc = "forward", !.pruneHeight = PruneTip.height,
                            !.nextHeight = walkFrom(PruneTip.height)]
    /\ UNCHANGED <<pruneLog, chainTip>>
    /\ UNCHANGED <<sweeperVars, lifeVars, chainVars, gossipVars, payVars,
                   queryVars, callVars, classVars, stopVars, zombieVars, startVars>>

\* for nextHeight <= bestHeight: quit is honoured, else the block is pruned
SyncPrune(spentOutputs, ok) ==
    /\ sync.pc = "forward"
    /\ sync.nextHeight <= sync.bestHeight
    /\ IF routerQuit
       THEN /\ ok
            /\ spentOutputs = {}
            /\ sync' = SyncReturned("ErrRouterShuttingDown")
            /\ UNCHANGED <<pruneLog, pruneTip, closedAt>>
       ELSE IF ~ok
       THEN /\ spentOutputs = {}
            /\ sync' = SyncReturned("error")
            /\ UNCHANGED <<pruneLog, pruneTip, closedAt>>
       ELSE /\ pruneLog' = pruned(GetBlockHash(sync.nextHeight))
            /\ pruneTip' = sync.nextHeight
            /\ closedAt' = PruneGraph(spentOutputs, sync.nextHeight)
            /\ sync' = [sync EXCEPT !.nextHeight = @ + 1]
    /\ UNCHANGED chainTip
    /\ UNCHANGED <<routerBestHeight, topologyClients, lastTopologyChange,
                   outOfOrderBlock, reorg, storeErrors>>
    /\ UNCHANGED <<sweeperVars, lifeVars, gossipVars, payVars, queryVars,
                   callVars, classVars, stopVars, zombieVars, startVars>>

\* the forward walk has reached the best height
SyncDone ==
    /\ sync.pc = "forward"
    /\ sync.nextHeight > sync.bestHeight
    /\ sync' = SyncReturned("nil")
    /\ UNCHANGED <<pruneLog, chainTip>>
    /\ UNCHANGED <<sweeperVars, lifeVars, chainVars, gossipVars, payVars,
                   queryVars, callVars, classVars, stopVars, zombieVars, startVars>>

\* Start after syncGraphWithChain: its error is returned, else the nodes are
\* pruned, the payments in flight resumed and the networkHandler launched
StartSynced(ok) ==
    /\ sync.pc = "returned"
    /\ sync.err = "nil"
    /\ sync' = [sync EXCEPT !.pc = IF ok THEN "started" ELSE "failed"]
    /\ IF ok
       THEN /\ lifecycles' = lifecycles \o resumePayments(FetchInFlightPayments)
            /\ networkHandler' = "running"
       ELSE UNCHANGED <<lifecycles, networkHandler>>
    /\ UNCHANGED <<routerStarted, routerStopped, routerQuit>>
    /\ UNCHANGED <<control, htlcs, nextPaymentID>>
    /\ UNCHANGED <<pruneLog, chainTip>>
    /\ UNCHANGED <<sweeperVars, chainVars, gossipVars, queryVars, callVars,
                   classVars, stopVars, zombieVars, startVars>>

SyncNext ==
    \/ \E ok \in BOOLEAN : StartPruneTip(ok)
    \/ ChainExtends
    \/ \E ok \in BOOLEAN : SyncBegin(ok)
    \/ \E ok \in BOOLEAN : SyncDisconnect(ok)
    \/ SyncForward
    \/ \E spentOutputs \in SpentOutputs, ok \in BOOLEAN :
          SyncPrune(spentOutputs, ok)
    \/ SyncDone
    \/ \E ok \in BOOLEAN : StartSynced(ok)
    \/ \E chainViewStopOk \in BOOLEAN : RouterStop(chainViewStopOk)
    \/ HandlerQuit

\* the router from New over a graph store with any prune log
SyncInit ==
    /\ SweeperUnused
    /\ RouterUnsynced
    /\ channelGraph = NoChannels
    /\ pruneLog \in PruneLogs
    /\ pruneTip = tipHeight(pruneLog)
    /\ edgeExists = {}
    /\ edgeTimestamps = [c \in GossipChannels |-> [d \in Directions |-> 0]]
    /\ zombieIndex = {}
    /\ assumeChannelValid = FALSE
    /\ control = [h \in Hashes |-> NoPayment]
    /\ htlcs = {}
    /\ nextPaymentID = NumHashes + 1

\* Start runs on: each step of syncGraphWithChain that can be taken is taken
SyncFairness ==
    /\ WF_vars(\E ok \in BOOLEAN : SyncBegin(ok))
    /\ WF_vars(\E ok \in BOOLEAN : SyncDisconnect(ok))
    /\ WF_vars(SyncForward)
    /\ WF_vars(\E spentOutputs \in SpentOutputs, ok \in BOOLEAN :
                  SyncPrune(spentOutputs, ok))
    /\ WF_vars(SyncDone)

SyncSpec == SyncInit /\ [][SyncNext]_vars /\ SyncFairness

(***************************************************************************)
(* Claims about the sweeper.                                               *)
(***************************************************************************)
\* every Result sent so far, on any result channel
Results == UNION {Range(resultChans[c]) : c \in DOMAIN resultChans}

\* the result channels listed as listeners of a pending input
Listening == UNION {Range(pendingInputs[op].listeners) : op \in DOMAIN pendingInputs}

\* C3: every transaction the loop has handed to PublishTransaction is
\* recorded in the store (NotifyPublishTx precedes the publish and a failed
\* NotifyPublishTx stops it), so no result that carries a transaction the
\* loop published reports RemoteSpend.
C3_RecordedBeforePublish ==
    /\ published \subseteq store
    /\ \A r \in Results : r.tx \in published => r.err = "nil"

\* a pending input was spent by a transaction the loop published, and its
\* listener was told of a success
C3_Witness ==
    \E r \in Results : r.tx \in published /\ r.err = "nil"

\* C4: a result channel holds no Result while it is a listener of a pending
\* input, and exactly one Result once its input has been signalled and
\* removed: no channel ever receives a second Result, and no send finds the
\* one-slot buffer full.
C4_OneResultPerChannel ==
    \A c \in DOMAIN resultChans :
        IF c \in Listening THEN Len(resultChans[c]) = 0
        ELSE Len(resultChans[c]) = 1

\* one input has been signalled and removed while another is still pending
C4_Witness ==
    /\ \E c \in DOMAIN resultChans : Len(resultChans[c]) = 1
    /\ \E c \in DOMAIN resultChans : c \in Listening

\* C5: while an input stays pending its listeners are only ever appended to,
\* a SweepInput for a pending outpoint appends exactly the caller's fresh
\* channel, and when the input is removed every one of its listeners has
\* received one and the same Result.
C5_ListenersShareResult ==
    [][\A op \in DOMAIN pendingInputs :
          LET listeners == pendingInputs[op].listeners
          IN IF op \in DOMAIN pendingInputs'
             THEN \/ pendingInputs'[op].listeners = listeners
                  \/ /\ Len(resultChans') = Len(resultChans) + 1
                     /\ pendingInputs'[op].listeners =
                           Append(listeners, Len(resultChans'))
             ELSE \E result \in Results' :
                     \A c \in Range(listeners) : resultChans'[c] = <<result>>]_vars

\* a pending input with two listeners
C5_Witness ==
    \E op \in DOMAIN pendingInputs : Len(pendingInputs[op].listeners) = 2

stillPending == (Head(inputLists) \cap DOMAIN pendingInputs) \cap DOMAIN pendingInputs'

\* the reschedule loop has run for a still-pending input
rescheduled(op) ==
    /\ pendingInputs'[op].publishAttempts = pendingInputs[op].publishAttempts + 1
    /\ \E d \in DefaultNextAttemptDeltaFunc(pendingInputs'[op].publishAttempts) :
          pendingInputs'[op].minPublishHeight = bestHeight + d

spendHandled(tx) ==
    LET spent == tx.ins \cap DOMAIN pendingInputs
        result == Result(IF tx \in store THEN "nil" ELSE "RemoteSpend", tx)
    IN /\ DOMAIN pendingInputs' = DOMAIN pendingInputs \ spent
       /\ \A op \in spent : \A c \in Range(pendingInputs[op].listeners) :
             resultChans'[c] = <<result>>
       /\ \A op \in DOMAIN pendingInputs \ spent :
             /\ pendingInputs'[op] = pendingInputs[op]
             /\ \A c \in Range(pendingInputs[op].listeners) :
                   resultChans'[c] = resultChans[c]

C7_OnlyNextHeightApplied ==
    [][\A height \in BlockHeights, spentOutputs \in SpentOutputs, pruneOk \in BOOLEAN :
          NewBlock(height, spentOutputs, pruneOk) =>
             IF height = routerBestHeight + 1
             THEN /\ routerBestHeight' = height
                  /\ pruneOk => /\ pruneTip' = height
                                /\ \A c \in Channels :
                                      closedAt'[c] =
                                         IF closedAt[c] = 0 /\ c \in spentOutputs
                                         THEN height ELSE closedAt[c]
             ELSE UNCHANGED <<routerBestHeight, closedAt, pruneTip,
                              topologyClients, lastTopologyChange>>]_vars

\* a block two above the best height was dropped, while a channel it could
\* have closed is in the graph and a topology client is registered
C7_Witness ==
    /\ outOfOrderBlock = routerBestHeight + 2
    /\ topologyClients # {}
    /\ \E c \in Channels : closedAt[c] = 0

\* C8 as stated: after h1, h2, h3, stale h3, h2, h1, then h2' and h3', the
\* channel closed in h1 is closed, those closed in h2 and h3 are in the
\* graph and the channel spent in h2' is closed.
C8_ReorgDepth3 ==
    reorg = ReorgDepth3 =>
       /\ closedAt[1] # 0
       /\ closedAt[2] = 0
       /\ closedAt[3] = 0
       /\ closedAt[4] # 0

\* C8 amended: the same with only h3 and h2 reported stale, h1 staying on
\* the chain.
C8_ReorgKeepsH1 ==
    reorg = ReorgDepth2 =>
       /\ closedAt[1] = StartHeight + 1
       /\ closedAt[2] = 0
       /\ closedAt[3] = 0
       /\ closedAt[4] = StartHeight + 2
       /\ routerBestHeight = StartHeight + 3
       /\ pruneTip = StartHeight + 3

\* the amended scenario has run to its end
C8_Witness == reorg = ReorgDepth2


(***************************************************************************)
(* Claims about graph updates (GossipSpec).                                *)
(***************************************************************************)
StrictlyIncreasing(seq) ==
    \A i \in 1..Len(seq) - 1 : seq[i] < seq[i + 1]

jobStarted(j) == jobs[j].pc \notin {"WaitForDependants", "shutdown"}

jobFinished(j) == jobs[j].pc \in {"SignalDependants", "done"}

infoBefore(j) ==
    {i \in 1..j - 1 : /\ jobs[i].msg.kind = "info"
                      /\ jobs[i].msg.chanID = jobs[j].msg.chanID}

policyJobs == {j \in DOMAIN jobs : jobs[j].msg.kind = "policy"}

\* C2: for every channel id and direction the timestamps of the policies
\* written to the graph are strictly increasing, the first one newer than no
\* policy at all; the stored timestamp is the last one written, and a job
\* holding the mutex of the channel id has read the timestamp that is stored.
C2_PolicyTimestampsIncrease ==
    /\ \A c \in GossipChannels, d \in Directions :
          /\ StrictlyIncreasing(<<0>> \o written[c][d])
          /\ edgeTimestamps[c][d] = (<<0>> \o written[c][d])[Len(written[c][d]) + 1]
    /\ \A j \in policyJobs :
          jobs[j].pc = "locked" =>
             /\ channelEdgeMtx[jobs[j].msg.chanID] = j
             /\ jobs[j].edgeTimestamp =
                   edgeTimestamps[jobs[j].msg.chanID][jobs[j].msg.dir]

\* two policies of one direction have been written, the second by a job that
\* was at Lock while the first held the mutex
C2_Witness ==
    \E c \in GossipChannels, d \in Directions : Len(written[c][d]) = 2

\* C9 as stated: a policy starts processUpdate only after every channel
\* announcement of its channel handed over before it has finished its own
\* processUpdate.
C9_PolicyAfterEveryInfo ==
    \A j \in policyJobs :
       jobStarted(j) => \A i \in infoBefore(j) : jobFinished(i)

\* C9 as amended: a policy handed over after a channel announcement of its
\* channel starts processUpdate only after some channel announcement of that
\* channel has finished its processUpdate (that announcement itself when it
\* is the only one); an open signal always has an unfinished announcement
\* that will close it, whatever its processUpdate returns; and only a closed
\* quit channel makes a job return without processUpdate.
C9_PolicyAfterSomeInfo ==
    /\ \A j \in policyJobs :
          (jobStarted(j) /\ infoBefore(j) # {}) =>
             \E i \in DOMAIN jobs :
                /\ jobs[i].msg = ChannelEdgeInfo(jobs[j].msg.chanID)
                /\ jobFinished(i)
    /\ \A c \in chanAnnFinSignal :
          \E i \in DOMAIN jobs : /\ jobs[i].msg = ChannelEdgeInfo(c)
                                 /\ jobs[i].pc # "done"
    /\ \A j \in DOMAIN jobs : jobs[j].pc = "shutdown" => routerQuit

\* a policy has been processed after the announcement handed over before it
\* was rejected
C9_Witness ==
    \E i, j \in DOMAIN jobs :
       /\ i \in infoBefore(j)
       /\ jobs[j].msg.kind = "policy"
       /\ jobs[i].pc = "done" /\ jobs[i].err = "error"
       /\ jobs[j].pc = "done"


\* the policy updates processUpdate has rejected with ErrOutdated
outdatedJobs == {j \in policyJobs : jobs[j].err = "ErrOutdated"}

\* C14 as stated: once a policy update has been rejected with ErrOutdated,
\* the timestamp stored for its channel id and direction is strictly greater
\* than the update's, then and ever after.
C14_StoredStrictlyNewer ==
    \A j \in outdatedJobs :
       edgeTimestamps[jobs[j].msg.chanID][jobs[j].msg.dir] > jobs[j].msg.LastUpdate

\* C14 amended: the stored timestamp is greater than or equal to the
\* update's; an update with the stored timestamp is rejected with
\* ErrOutdated too.
C14_StoredNotOlder ==
    \A j \in outdatedJobs :
       edgeTimestamps[jobs[j].msg.chanID][jobs[j].msg.dir] >= jobs[j].msg.LastUpdate

\* an update older than the stored policy has been rejected with ErrOutdated
\* and its goroutine has returned
C14_Witness ==
    \E j \in outdatedJobs :
       /\ jobs[j].pc = "done"
       /\ edgeTimestamps[jobs[j].msg.chanID][jobs[j].msg.dir] > jobs[j].msg.LastUpdate

(***************************************************************************)
(* Claims about payments (PaymentsSpec).                                   *)
(***************************************************************************)
htlcsOf(hash) == {x \in htlcs : x.hash = hash}

resumedLifecycles == {l \in DOMAIN lifecycles : lifecycles[l].resumed}

\* C1: at every instant at most one HTLC of a payment hash is in flight, and
\* a call whose InitPayment the control tower rejected has returned that
\* error without registering an attempt and without calling SendHTLC.
C1_OneAttemptPerHash ==
    /\ \A hash \in Hashes : Cardinality(htlcsOf(hash)) <= 1
    /\ \A l \in DOMAIN lifecycles :
          lifecycles[l].err = "ErrPaymentInFlight" =>
             /\ lifecycles[l].pc = "Done"
             /\ lifecycles[l].registered = 0
             /\ lifecycles[l].sent = 0

\* a call has been rejected for a hash whose HTLC, sent by an earlier call,
\* is in flight
C1_Witness ==
    \E l \in DOMAIN lifecycles, k \in DOMAIN lifecycles :
       /\ lifecycles[l].err = "ErrPaymentInFlight"
       /\ k < l
       /\ ~lifecycles[k].resumed
       /\ lifecycles[k].hash = lifecycles[l].hash
       /\ lifecycles[k].pc = "AwaitingResult"
       /\ [id |-> lifecycles[k].attempt, hash |-> lifecycles[k].hash] \in htlcs

\* C6: a payment resumed at Start never calls SendHTLC and never registers
\* an attempt; it asks the dispatcher for the result of the stored attempt
\* only, and it ends with the payment succeeded or failed by a result only
\* after it has asked for the result of that attempt.
C6_ResumedNeverSends ==
    \A l \in resumedLifecycles :
       LET p == lifecycles[l]
       IN /\ p.sent = 0
          /\ p.registered = 0
          /\ p.queried \subseteq {p.stored} \ {0}
          /\ (p.pc = "Done" /\ p.err \in {"nil", "error"}) =>
                p.queried = {p.stored}

\* one resumed payment has succeeded by the result of its stored attempt,
\* another one, without a usable attempt, has failed for want of a route
C6_Witness ==
    \E l \in resumedLifecycles, k \in resumedLifecycles :
       /\ lifecycles[l].pc = "Done" /\ lifecycles[l].err = "nil"
       /\ lifecycles[l].queried = {lifecycles[l].stored}
       /\ lifecycles[k].pc = "Done" /\ lifecycles[k].err = "noRoute"

(***************************************************************************)
(* Claims on IsStaleEdgePolicy                                             *)
(***************************************************************************)

\* the answers of UpdateEdge to the policy that was asked about
answeredJobs == {j \in DOMAIN jobs : jobs[j].err # "none"}

\* C15 as stated: in every graph state, IsStaleEdgePolicy is true exactly
\* when UpdateEdge answers the same policy with Outdated
C15_StaleIffOutdated ==
    \A j \in answeredJobs :
        staleQuery.stale <=> jobs[j].err = "ErrOutdated"

\* C15, amended: for a channel that is live or unknown, IsStaleEdgePolicy is
\* true exactly when UpdateEdge answers the same policy with Outdated; for a
\* zombie channel and a timestamp older than ChannelPruneExpiry,
\* IsStaleEdgePolicy is true and UpdateEdge answers Ignored
C15_StaleIffOutdatedUnlessZombie ==
    \A j \in answeredJobs :
        IF staleQuery.chanID \in zombieIndex
        THEN olderThanExpiry(staleQuery.timestamp) =>
                 staleQuery.stale /\ jobs[j].err = "ErrIgnored"
        ELSE staleQuery.stale <=> jobs[j].err = "ErrOutdated"

C15_Witness ==
    \E j \in answeredJobs :
        /\ staleQuery.chanID \in edgeExists
        /\ staleQuery.stale
        /\ jobs[j].err = "ErrOutdated"
        /\ edgeTimestamps[staleQuery.chanID][staleQuery.dir] = staleQuery.timestamp

(***************************************************************************)
(* Claims on processSendError and getFailedEdge                            *)
(***************************************************************************)

\* processSendError has returned
classified == classifier.pc \in {"returned", "failed", "retried"}

\* the node that sends into hop i of the route, and the amount it sends
sender(rt, i) == IF i = 1 THEN rt.SourcePubKey ELSE rt.Hops[i - 1].PubKeyBytes

amountInto(rt, i) == IF i = 1 THEN rt.TotalAmount ELSE rt.Hops[i - 1].AmtToForward

onRoute(rt, v) ==
    v = rt.SourcePubKey \/ \E i \in DOMAIN rt.Hops : rt.Hops[i].PubKeyBytes = v

\* the hop the claim names: the first hop the error source sends into, or
\* the final hop for the node at the end of the route
failingHop(rt, v) ==
    LET sending == {i \in DOMAIN rt.Hops : sender(rt, i) = v}
    IN IF sending # {} THEN Min(sending) ELSE Len(rt.Hops)

\* C18: getFailedEdge returns the first hop the error source sends into, or
\* the final hop for the node at its end, as (from, to, channel) with the
\* amount sent into that hop; it returns an error exactly when the error
\* source is neither the source of the route nor the node of a hop
C18_FailedEdgeLocated ==
    classifier.failed.err # "none" =>
        LET rt == fwdError.rt
            v == fwdError.errSource
            i == failingHop(rt, v)
        IN IF ~onRoute(rt, v)
           THEN classifier.failed.err = "error"
           ELSE /\ classifier.failed.err = "nil"
                /\ classifier.failed.edge =
                      [from |-> sender(rt, i), to |-> rt.Hops[i].PubKeyBytes,
                       channel |-> rt.Hops[i].ChannelID]
                /\ classifier.failed.amt = amountInto(rt, i)

\* a node that the route passes and ends at fails: the hop it sends into
C18_Witness ==
    /\ classifier.failed.err = "nil"
    /\ Len(fwdError.rt.Hops) = 2
    /\ fwdError.rt.Hops[1].PubKeyBytes = fwdError.errSource
    /\ fwdError.rt.Hops[2].PubKeyBytes = fwdError.errSource
    /\ classifier.failed.edge.channel = 2
    /\ classifier.failed.amt = fwdError.rt.Hops[1].AmtToForward

\* the kinds C16 names as terminal, and those the table lists as not terminal
namedTerminal ==
    {"FailUnknownPaymentHash", "FailIncorrectPaymentAmount",
     "FailFinalIncorrectCltvExpiry", "FailFinalIncorrectHtlcAmount",
     "FailFinalExpiryTooSoon", "FailInvalidRealm", "FailInvalidOnionVersion",
     "FailInvalidOnionHmac", "FailInvalidOnionKey"}

listedNotTerminal ==
    {"FailExpiryTooSoon", "FailAmountBelowMinimum", "FailFeeInsufficient",
     "FailIncorrectCltvExpiry", "FailChannelDisabled",
     "FailTemporaryChannelFailure", "FailUnknownNextPeer",
     "FailTemporaryNodeFailure", "FailPermanentNodeFailure",
     "FailRequiredNodeFeatureMissing", "FailRequiredChannelFeatureMissing",
     "FailExpiryTooFar", "FailPermanentChannelFailure"}

\* C16: for an error source on the route, processSendError returns terminal
\* exactly for the nine named kinds and for a kind the table does not list;
\* for these it reports nothing to the payment session, hands no channel
\* update to the router, and the payment sends no further HTLC
C16_TerminalKinds ==
    (classified /\ onRoute(fwdError.rt, fwdError.errSource)) =>
        /\ classifier.terminal <=>
              (fwdError.kind \in namedTerminal
                  \/ fwdError.kind \notin listedNotTerminal)
        /\ classifier.terminal =>
              /\ reports = <<>>
              /\ apiCalls = <<>>
              /\ jobs = <<>>
              /\ \A c \in GossipChannels, d \in Directions : written[c][d] = <<>>
              /\ sends = 1

C16_Witness ==
    /\ classifier.pc = "failed"
    /\ onRoute(fwdError.rt, fwdError.errSource)
    /\ fwdError.kind = "FailUnknownPaymentHash"
    /\ sends = 1

\* what applyChannelUpdate has to answer by the claim: the update is absent,
\* or UpdateEdge was called and returned nil, Ignored or Outdated
applyExpected ==
    \/ fwdError.update = NoUpdate
    \/ /\ classifier.call # 0
       /\ apiCalls[classifier.call].ret \in {"nil", "ErrIgnored", "ErrOutdated"}

\* C17: for AmountBelowMinimum, FeeInsufficient and IncorrectCltvExpiry from
\* a node on the route, processSendError is not terminal and reports one
\* edge-policy failure for the failed edge, preceded by an edge failure for
\* that edge exactly when the channel update could not be applied
C17_PolicyFailureReports ==
    (/\ classified
     /\ onRoute(fwdError.rt, fwdError.errSource)
     /\ fwdError.kind \in {"FailAmountBelowMinimum", "FailFeeInsufficient",
                           "FailIncorrectCltvExpiry"}) =>
        LET e == classifier.failed.edge
        IN /\ ~classifier.terminal
           /\ reports = (IF applyExpected THEN <<>> ELSE <<EdgeFailure(e, 0)>>)
                            \o <<EdgePolicyFailure(e)>>

\* the update was answered with Ignored, for a channel pruned after
\* applyChannelUpdate had found it: one edge-policy failure alone
C17_Witness ==
    /\ classified
    /\ fwdError.kind = "FailFeeInsufficient"
    /\ classifier.call # 0
    /\ apiCalls[classifier.call].ret = "ErrIgnored"
    /\ reports = <<EdgePolicyFailure(classifier.failed.edge)>>

(***************************************************************************)
(* Claims on SendToRoute                                                   *)
(***************************************************************************)

\* the calls of SendToRoute that have returned
returnedCalls == {l \in DOMAIN lifecycles : lifecycles[l].pc = "Returned"}

\* C19: a SendToRoute whose attempt failed with a wire failure returns that
\* failure itself, whether the lifecycle surfaced it or wrapped it in a
\* no-route error, and never the no-route error; a SendToRoute whose
\* InitPayment was rejected returns that error and has sent nothing
C19_StructuredFailureReturned ==
    \A l \in returnedCalls :
       LET p == lifecycles[l]
       IN /\ (p.lastError # 0 /\ p.err \in {"error", "noRoute"}) =>
                 p.ret = ErrorValue("error", p.lastError)
          /\ p.err = "ErrPaymentInFlight" =>
                 /\ p.ret = ErrorValue("ErrPaymentInFlight", 0)
                 /\ p.registered = 0
                 /\ p.sent = 0
                 /\ p.queried = {}

\* one call has returned the failure its lifecycle had wrapped in a no-route
\* error, another the rejection of InitPayment
C19_Witness ==
    \E l \in returnedCalls, k \in returnedCalls :
       /\ lifecycles[l].err = "noRoute"
       /\ lifecycles[l].lastError # 0
       /\ lifecycles[l].ret = ErrorValue("error", lifecycles[l].lastError)
       /\ lifecycles[k].err = "ErrPaymentInFlight"
       /\ lifecycles[k].ret.err = "ErrPaymentInFlight"

(***************************************************************************)
(* Claims on the calls over a router that shuts down                       *)
(***************************************************************************)

\* the networkHandler has returned
loopExited == networkHandler = "exited"

\* call i has entered and not returned
pending(i) == i \in DOMAIN apiCalls /\ apiCalls[i].pc # "returned"

\* call i has returned ErrRouterShuttingDown, or the answer of the update
\* the networkHandler had taken from it
shutDownOrAnswered(i) ==
    /\ i \in DOMAIN apiCalls
    /\ apiCalls[i].pc = "returned"
    /\ \/ apiCalls[i].ret = "ErrRouterShuttingDown"
       \/ apiCalls[i].job # 0

\* C20: once the networkHandler has exited, whether by quit or by a closed
\* block stream, every call of AddNode, AddEdge or UpdateEdge that is
\* pending or made later returns, none blocks forever, and a call the
\* handler has not taken returns ErrRouterShuttingDown
C20_NoCallBlocksAfterExit ==
    \A i \in 1..MaxCalls : (loopExited /\ pending(i)) ~> shutDownOrAnswered(i)

(***************************************************************************)
(* Claims on Stop                                                          *)
(***************************************************************************)
\* the Stop calls of a component that have returned, and those under way
stopReturned(c) ==
    {i \in DOMAIN stopCalls : stopCalls[i].component = c
                                 /\ stopCalls[i].pc = "returned"}

stopRunning(c) ==
    {i \in DOMAIN stopCalls : stopCalls[i].component = c
                                 /\ stopCalls[i].pc # "returned"}

loopsExited(c) ==
    IF c = "router" THEN networkHandler # "running" ELSE collector # "running"

\* C21: Stop calls on a started router or sweeper close quit exactly once:
\* never twice, and, once every Stop call made has returned, not zero times,
\* also when the router's chain view failed to stop; and once a call has
\* returned nil with none under way, the loop goroutine has exited.
C21_QuitClosedOnce ==
    \A c \in Components :
        /\ quitCloses[c] <= 1
        /\ (stopReturned(c) # {} /\ stopRunning(c) = {}) => quitCloses[c] = 1
        /\ (stopRunning(c) = {}
              /\ \E i \in stopReturned(c) : stopCalls[i].ret = "nil")
             => loopsExited(c)

(***************************************************************************)
(* Claims on syncGraphWithChain                                            *)
(***************************************************************************)
synced == sync.pc \in {"returned", "started", "failed"} /\ sync.err = "nil"

walking == sync.pc \in {"backward", "forward"}

\* C22 as stated: when syncGraphWithChain returns nil the prune tip is the
\* best block read at its beginning.
C22_SyncedToChainTip ==
    synced => (pruneLog # <<>> /\ inSync(sync.bestHeight))

\* C22: when syncGraphWithChain returns nil the prune tip is the best block
\* read at its beginning, unless the backward walk has disconnected every
\* pruned block and left the graph never pruned; and both walks terminate.
C22_SyncedUnlessAllDisconnected ==
    /\ [](synced => IF pruneLog = <<>> THEN sync.disconnected > 0
                    ELSE inSync(sync.bestHeight))
    /\ (walking ~> ~walking)

\* the stored tip was on a stale branch and behind: blocks were disconnected,
\* then pruned, up to the best block
C22_Witness ==
    /\ synced
    /\ sync.disconnected > 0
    /\ sync.nextHeight > sync.pruneHeight + 1
    /\ inSync(sync.bestHeight)

(***************************************************************************)
(* Claims on updates of zombie channels                                    *)
(***************************************************************************)
\* the answered updates of a channel the store had marked as a zombie, with
\* a timestamp that is not older than ChannelPruneExpiry
freshZombieJobs ==
    {j \in answeredJobs : /\ jobs[j].msg.kind = "policy"
                          /\ jobs[j].isZombie
                          /\ ~olderThanExpiry(jobs[j].msg.LastUpdate)}

scheduleEvent ==
    \/ \E outpoint \in OutPoints, feePreference \in FeePreferences,
          waitForSpendOk \in BOOLEAN :
          SweepInput(outpoint, feePreference, waitForSpendOk)
    \/ \E outpoint \in OutPoints, tx \in Confirmable, isOurTxOk \in BOOLEAN :
          CollectorSpend(outpoint, tx, isOurTxOk)
    \/ BlockEpoch

\* some cluster of the inputs pending after the step yields an input set at
\* the height after the step
someInputSet ==
    \E cluster \in clusterBySweepFeeRate(pendingInputs') :
        Len(getInputLists(cluster, pendingInputs', bestHeight')) # 0

\* C24: at most one batch timer is outstanding, and the timer field tells
\* whether one is; a timer is made only while none is pending and only when
\* some cluster yields a non-empty input set; when the timer has expired
\* none is pending until a later new input, spend or block makes one.
C24_OneBatchTimer ==
    /\ [](batchTimers \in {0, 1} /\ (timer <=> batchTimers = 1))
    /\ [][batchTimers' > batchTimers => ~timer /\ someInputSet]_vars
    /\ [][TimerExpire => ~timer' /\ batchTimers' = 0]_vars
    /\ [][~timer /\ timer' => scheduleEvent]_vars

\* a second input is offered while the timer of the first is pending
C24_Witness ==
    /\ timer
    /\ batchTimers = 1
    /\ Cardinality(DOMAIN pendingInputs) = 2
    /\ published = {}
    /\ blocks = 0

(***************************************************************************)
(* Claims on the order of a batch.  batchRates holds the sweep fee rates   *)
(* of the transactions handed to PublishTransaction since the last expiry  *)
(* of the timer, in the order of the calls.                                *)
(***************************************************************************)
\* C25: within one timer expiry the publish attempts of a cluster with a
\* higher sweep fee rate all come before those of a cluster with a lower one.
C25_HigherFeeRateFirst ==
    \A i, j \in DOMAIN batchRates : i < j => batchRates[i] >= batchRates[j]

\* one expiry publishes for the cluster of rate 12 and then for that of
\* rate 10
C25_Witness ==
    /\ batchRates = <<12, 10>>
    /\ Cardinality(published) = 2

(***************************************************************************)
(* Claims on the fee rate buckets.                                         *)
(***************************************************************************)
\* the pending inputs are two new inputs with fee preferences 10 and 12,
\* both due at the best height, and the collector is about to sweep the
\* first input set that holds one of them
batchOfTenAndTwelve(a, b) ==
    /\ DOMAIN pendingInputs = {a, b}
    /\ pendingInputs[a].feePreference = 10
    /\ pendingInputs[b].feePreference = 12
    /\ \A op \in {a, b} : /\ pendingInputs[op].publishAttempts = 0
                          /\ pendingInputs[op].minPublishHeight <= bestHeight
    /\ collector = "running"
    /\ inputLists # <<>>
    /\ Head(inputLists) \cap {a, b} # {}

\* C26 as stated: the fee preferences 10 and 12 both fall into bucket 2 and
\* the two inputs are swept in one transaction at the sweep fee rate 11.
C26_TenAndTwelveInBucketTwo ==
    \A a, b \in OutPoints :
        batchOfTenAndTwelve(a, b) =>
            /\ bucketForFeeRate(10) = 2
            /\ bucketForFeeRate(12) = 2
            /\ Head(inputLists) = {a, b}
            /\ sweepFeeRate = 11

\* C26, amended: with a relay fee rate of 2 or more the fee preferences 10
\* and 12 both fall into bucket 1 and the two inputs are swept in one
\* transaction at the sweep fee rate 11; with a relay fee rate below 2 they
\* fall into buckets 1 and 2 and each input is swept alone at its own rate.
C26_TenAndTwelveInBucketOne ==
    \A a, b \in OutPoints :
        batchOfTenAndTwelve(a, b) =>
            IF relayFeeRate >= 2
            THEN /\ bucketForFeeRate(10) = 1
                 /\ bucketForFeeRate(12) = 1
                 /\ Head(inputLists) = {a, b}
                 /\ sweepFeeRate = 11
            ELSE /\ bucketForFeeRate(10) = 1
                 /\ bucketForFeeRate(12) = 2
                 /\ \E op \in {a, b} :
                       /\ Head(inputLists) = {op}
                       /\ sweepFeeRate = pendingInputs[op].feePreference

C26_Witness ==
    /\ relayFeeRate = 2
    /\ batchOfTenAndTwelve(1, 2)
    /\ Head(inputLists) = {1, 2}
    /\ sweepFeeRate = 11
    /\ batchRates = <<>>

(***************************************************************************)
(* Claims on the republish of Start.                                       *)
(***************************************************************************)
\* the calls of Start whose error Start returns
startErrors == {"GetLastPublishedTx", "GetBestBlock", "RegisterBlockEpochNtfn"}

\* no output script has been generated: none is kept, and no sweep has come
\* to the publish that clears the one it generated
noScriptYet == currentOutputScript = 0 /\ published = {}

\* C27: a Start that fetched a last published transaction hands it to
\* PublishTransaction exactly once, before the collector is launched and
\* before any output script is generated; whatever that publish returns,
\* Start fails only by an error of GetLastPublishedTx, GetBestBlock or
\* RegisterBlockEpochNtfn and launches the collector otherwise; Start
\* generates no output script.
C27_RepublishedOnceAtStart ==
    /\ [](republished \in {0, 1})
    /\ [](startCall.lastTx # NoTx =>
            republished = 1 /\ startCall.republish \in RepublishResults)
    /\ [](startCall.ret = "error" => startCall.err \in startErrors)
    /\ [](startCall.ret = "nil" <=> collector # "none")
    /\ [][republished' # republished =>
            /\ SweeperStart
            /\ collector = "none"
            /\ noScriptYet
            /\ noScriptYet']_vars
    /\ [][SweeperStart => UNCHANGED <<currentOutputScript, store, published>>]_vars

\* the republish failed with an error other than DoubleSpend, Start returned
\* nil and the collector has since generated an output script
C27_Witness ==
    /\ startCall.lastTx = OldTx
    /\ startCall.republish = "Error"
    /\ startCall.ret = "nil"
    /\ republished = 1
    /\ currentOutputScript # 0

(***************************************************************************)
(* Claims on the removal of pending inputs.                                *)
(***************************************************************************)
\* the result the step delivers to the listeners of a pending input
delivered(op) ==
    {resultChans'[c][Len(resultChans'[c])] :
        c \in {d \in Range(pendingInputs[op].listeners) :
                  Len(resultChans'[d]) > Len(resultChans[d])}}

\* the step is the spend handler and the spending transaction it was
\* notified of spends the input
removedBySpend(op) ==
    /\ \E outpoint \in OutPoints, tx \in Confirmable :
          CollectorSpend(outpoint, tx, TRUE) /\ op \in tx.ins
    /\ \A result \in delivered(op) :
          /\ result.err \in {"nil", "RemoteSpend"}
          /\ op \in result.tx.ins

\* the step is a sweep that published the input for the
\* MaxSweepAttempts-th time
removedByAttempts(op) ==
    /\ SweepStep
    /\ op \in Head(inputLists)
    /\ pendingInputs[op].publishAttempts + 1 = MaxSweepAttempts
    /\ \A result \in delivered(op) : result = Result("TooManyAttempts", NoTx)

LoopFields == {"pendingInputs", "timer", "currentOutputScript",
               "relayFeeRate", "bestHeight"}

\* C29 as stated: pendingInputs, timer, currentOutputScript, relayFeeRate and
\* bestHeight are read and written by the collector only, by no public
\* operation on a caller's thread.
C29_LoopFieldsOfLoopOnly ==
    \A a \in accessed : a.field \in LoopFields => a.by = "loop"

\* C29, amended: pendingInputs, timer, currentOutputScript and bestHeight are
\* read and written by the collector only; relayFeeRate is written by Start
\* alone, on the caller's thread and before the collector is launched, and
\* is read by the collector and by SweepInput on the caller's thread;
\* PendingInputs and CreateSweepTx touch none of the five.
C29_RelayFeeRateOfStartAndSweepInput ==
    /\ [](\A a \in accessed :
             a.field \in LoopFields /\ a.by # "loop" =>
                 /\ a.field = "relayFeeRate"
                 /\ a \in {Access("Start", "relayFeeRate", "write"),
                           Access("SweepInput", "relayFeeRate", "read")})
    /\ [](Access("loop", "relayFeeRate", "write") \notin accessed)
    /\ [][relayFeeRate' # relayFeeRate => SweeperStart /\ collector = "none"]_vars
    /\ [][(\A field \in LoopFields \ {"relayFeeRate"} :
              Access("loop", field, "write") \notin accessed'
                 \ accessed) \/ collector = "running"]_vars

\* every public operation has run, the collector has written its four
\* fields, and the relay fee rate was written by Start and read by SweepInput
C29_Witness ==
    /\ {Access("Start", "relayFeeRate", "write"),
        Access("SweepInput", "relayFeeRate", "read"),
        Access("loop", "relayFeeRate", "read"),
        Access("CreateSweepTx", "cfg", "read")} \subseteq accessed
    /\ writes("loop", LoopFields \ {"relayFeeRate"}) \subseteq accessed
    /\ handlePendingSweepsReq \subseteq accessed

(***************************************************************************)
(* Claims on the input sets of a batch.                                    *)
(***************************************************************************)
\* the step runs getInputLists for a cluster and gets input sets: the expiry
\* of the timer, or the sweep of the last input set of the cluster before
\* (the collector's `for _, cluster := range inputClusters`)
listsBuilt ==
    /\ inputLists' # <<>>
    /\ \/ TimerExpire
       \/ SweepStep /\ Tail(inputLists) = <<>> /\ collector' = "running"

\* the input sets of a cluster, built from the pending inputs p at height h:
\* none holds an input that is not due; with a retry input among the due
\* inputs the first k sets hold the retry and the new inputs and the sets
\* after them the new inputs again; without one the sets hold the new
\* inputs once
setsOfCluster(lists, p, h) ==
    LET first == CHOOSE op \in Head(lists) : TRUE
        inputs == {op \in DOMAIN p :
                     /\ feeRateForPreferenceOk(p[op].feePreference)
                     /\ bucketForFeeRate(p[op].feePreference)
                           = bucketForFeeRate(p[first].feePreference)}
        due == {op \in inputs : p[op].minPublishHeight <= h}
        retry == {op \in due : p[op].publishAttempts >= 1}
        new == {op \in due : p[op].publishAttempts = 0}
        holding(op, from, to) == {i \in from..to : op \in lists[i]}
    IN /\ UNION Range(lists) \subseteq due
       /\ \A i \in DOMAIN lists :
             lists[i] # {} /\ Cardinality(lists[i]) <= MaxInputsPerTx
       /\ IF retry # {}
          THEN \E k \in 1..Len(lists) :
                  /\ UNION {lists[i] : i \in 1..k} = retry \cup new
                  /\ UNION {lists[i] : i \in (k + 1)..Len(lists)} = new
                  /\ \A op \in new :
                        /\ Cardinality(holding(op, 1, k)) = 1
                        /\ Cardinality(holding(op, k + 1, Len(lists))) = 1
          ELSE /\ UNION Range(lists) = new
               /\ \A op \in new : Cardinality(holding(op, 1, Len(lists))) = 1

scriptKeptOnFailure ==
    /\ currentOutputScript # 0 => ~SweepWith("GenSweepScript")
    /\ \A outcome \in {"createSweepTx", "NotifyPublishTx", "Error"} :
          SweepWith(outcome) =>
              /\ currentOutputScript' # 0
              /\ currentOutputScript # 0 =>
                    currentOutputScript' = currentOutputScript

\* C31 as stated: the cached output script is cleared after a publish that
\* returns nil or ErrDoubleSpend and kept, for the next sweep to use without
\* a call of GenSweepScript, after a failed build, a failed NotifyPublishTx
\* or any other publish error.
C31_ScriptClearedOnSoftSuccess ==
    [][/\ \A outcome \in {"nil", "DoubleSpend"} :
             SweepWith(outcome) => currentOutputScript' = 0
       /\ scriptKeptOnFailure]_vars

\* C31, amended: the cached output script is cleared after a publish that
\* returns nil only; it is kept after ErrDoubleSpend as after a failed
\* build, a failed NotifyPublishTx or any other publish error, for the next
\* sweep to use without a call of GenSweepScript.
C31_ScriptClearedOnNilOnly ==
    [][/\ SweepWith("nil") => currentOutputScript' = 0
       /\ SweepWith("DoubleSpend") =>
             /\ currentOutputScript' # 0
             /\ currentOutputScript # 0 =>
                   currentOutputScript' = currentOutputScript
       /\ scriptKeptOnFailure]_vars

\* the one publish of input 1 returned ErrDoubleSpend: the attempt was
\* counted and the script is still cached
C31_Witness ==
    /\ 1 \in DOMAIN pendingInputs
    /\ pendingInputs[1].publishAttempts = 1
    /\ publishErrors[1] = 1
    /\ published = {createSweepTx({1}, GenSweepScript, bestHeight, 10)}
    /\ currentOutputScript = GenSweepScript

\* case <-graphPruneTicker.C
ZombiePruneTick(outcome) ==
    /\ HandlerIdle
    /\ pruneZombieChans(outcome)
    /\ UNCHANGED <<sweeperVars, lifeVars, chainVars, gossipVars, payVars,
                   queryVars, callVars, classVars, stopVars, syncVars,
                   startVars>>

ZombieNext ==
    \/ \E startOk \in BOOLEAN : RouterStart(startOk)
    \/ \E outcome \in PruneOutcomes : ZombiePruneTick(outcome)

\* the router from New over a graph store that holds any channels, with or
\* without AssumeChannelValid
ZombieInit ==
    /\ SweeperUnused
    /\ RouterUnpruned
    /\ edgeExists = {}
    /\ edgeTimestamps = [c \in GossipChannels |-> [d \in Directions |-> 0]]
    /\ zombieIndex = {}
    /\ control = [h \in Hashes |-> NoPayment]
    /\ htlcs = {}
    /\ nextPaymentID = NumHashes + 1
    /\ assumeChannelValid \in BOOLEAN
    /\ channelGraph \in [PruneChanIDs -> ChannelEdges]

ZombieSpec == ZombieInit /\ [][ZombieNext]_vars

\* the policy is there and its last update is older than ChannelPruneExpiry
updatedBeforeExpiry(e) == ~e.nil /\ e.LastUpdate + ChannelPruneExpiry < Now

\* the policy is there and its last update is ChannelPruneExpiry old or older
updatedByExpiry(e) == ~e.nil /\ e.LastUpdate + ChannelPruneExpiry <= Now

policiesOf(edge) == {edge.e1, edge.e2}

touchesSelf(edge) == SourcePubKey \in {edge.NodeKey1, edge.NodeKey2}

bothDisabled(edge) == \A e \in policiesOf(edge) : ~e.nil /\ e.disabled

\* the channels of the graph the run examined that are gone after it
deletedByRun == DOMAIN zombieRun.graph \ DOMAIN channelGraph

channelsDeleted == zombieRun.err \in {"nil", "PruneGraphNodes"}

AddEdgeNext ==
    \/ \E startOk \in BOOLEAN : RouterStart(startOk)
    \/ \E c \in GossipChannels : NetworkUpdate(ChannelEdgeInfo(c))
    \/ \E j \in DOMAIN jobs : JobProceed(j)
    \/ \E j \in DOMAIN jobs, valid \in BOOLEAN : ProcessInfoCheck(j, valid)
    \/ \E j \in DOMAIN jobs, filterOk \in BOOLEAN : ProcessInfoAdd(j, filterOk)
    \/ \E j \in DOMAIN jobs : JobSignal(j)

\* the router from New over a graph store that holds each channel as live,
\* as a zombie, or not at all, with or without AssumeChannelValid
AddEdgeInit ==
    /\ SweeperUnused
    /\ RouterIdle
    /\ control = [h \in Hashes |-> NoPayment]
    /\ htlcs = {}
    /\ nextPaymentID = NumHashes + 1
    /\ assumeChannelValid \in BOOLEAN
    /\ \E status \in [GossipChannels -> GraphStates] :
          /\ edgeExists = {c \in GossipChannels : status[c] = "live"}
          /\ zombieIndex = {c \in GossipChannels : status[c] = "zombie"}
          /\ edgeTimestamps =
                 [c \in GossipChannels |->
                     [d \in Directions |-> IF status[c] = "live" THEN 1 ELSE 0]]

AddEdgeSpec == AddEdgeInit /\ [][AddEdgeNext]_vars

\* the channel announcements handed over for a channel id
infoJobs(chanID) ==
    {j \in DOMAIN jobs :
        jobs[j].msg.kind = "info" /\ jobs[j].msg.chanID = chanID}

\* the announcements whose AddChannelEdge put the channel into the graph
insertingJobs(chanID) == {j \in infoJobs(chanID) : jobs[j].added}

\* the announcements whose UpdateFilter extended the chain filter
filteringJobs(chanID) == {j \in infoJobs(chanID) : jobs[j].filtered}

\* the announcement found the channel in the graph or in the zombie index
foundKnown(j) == jobs[j].exists \/ jobs[j].isZombie

BlockHandled ==
    \E height \in BlockHeights, storeOk \in BOOLEAN :
        \/ \E spentOutputs \in SpentOutputs :
              NewBlock(height, spentOutputs, storeOk)
        \/ height = routerBestHeight /\ StaleBlock(height, storeOk)

\* C34: when the networkHandler has handled a new block or a stale block,
\* starting with its best height at the prune tip of the graph, the best
\* height is at the prune tip again, also when PruneGraph or
\* DisconnectBlockAtHeight returned an error.
C34_BestHeightAtPruneTip ==
    [][BlockHandled /\ routerBestHeight = pruneTip
          => routerBestHeight' = pruneTip']_vars

\* the same step with PruneGraph and DisconnectBlockAtHeight returning nil
BlockHandledByStore ==
    \E height \in BlockHeights :
        \/ \E spentOutputs \in SpentOutputs :
              NewBlock(height, spentOutputs, TRUE)
        \/ height = routerBestHeight /\ StaleBlock(height, TRUE)

\* what holds of the code: the best height stays at the prune tip over the
\* block events for which the graph store returns no error
BestHeightAtPruneTipUnlessError ==
    [][BlockHandledByStore /\ routerBestHeight = pruneTip
          => routerBestHeight' = pruneTip']_vars

(***************************************************************************)
(* Claims on the transactions of one batch.  batchInputs counts, per       *)
(* outpoint, the transactions spending it that sweep has handed to         *)
(* PublishTransaction since the timer expired, and keeps the               *)
(* publishAttempts its input had at the expiry.                            *)
(***************************************************************************)
\* C35 as stated: between one expiry of the timer and the next, no outpoint
\* is spent by more than one transaction handed to PublishTransaction, and
\* the publishAttempts of its input are at most one above those at the
\* expiry.
C35_PublishedOncePerBatch ==
    \A op \in OutPoints :
        /\ batchInputs[op].txs <= 1
        /\ op \in DOMAIN pendingInputs =>
              pendingInputs[op].publishAttempts <= batchInputs[op].attempts + 1

\* C35, amended: between one expiry of the timer and the next, an outpoint is
\* spent by at most two transactions handed to PublishTransaction and the
\* publishAttempts of its input grow by at most one for each of them; by two
\* transactions only if its input had never been published at the expiry
\* and some input of the batch had; an input published before the expiry is
\* in at most one transaction.
C35_PublishedTwicePerBatchAtMost ==
    \A op \in OutPoints :
        /\ batchInputs[op].txs <= 2
        /\ batchInputs[op].attempts > 0 => batchInputs[op].txs <= 1
        /\ batchInputs[op].txs = 2 =>
              \E other \in OutPoints \ {op} : batchInputs[other].attempts > 0
        /\ op \in DOMAIN pendingInputs =>
              pendingInputs[op].publishAttempts
                 <= batchInputs[op].attempts + batchInputs[op].txs

\* a new input pooled with one published before: the set of both and the
\* set of the new input alone have both been published at one height, and
\* the new input, at two attempts, has been given up
C35_Witness ==
    /\ batchInputs[1] = [attempts |-> 1, txs |-> 1]
    /\ batchInputs[2] = [attempts |-> 0, txs |-> 2]
    /\ inputLists = <<>>
    /\ 2 \notin DOMAIN pendingInputs

(***************************************************************************)
(* Claims on the spend of a pending input.                                 *)
(***************************************************************************)
\* the pending input of the outpoint is gone and each of its listeners has
\* been sent a Result
removedAndSignalled(outpoint) ==
    /\ outpoint \notin DOMAIN pendingInputs'
    /\ \A c \in Range(pendingInputs[outpoint].listeners) :
          Len(resultChans'[c]) = Len(resultChans[c]) + 1

\* C36: whenever a spend notification for an outpoint that is pending
\* reaches the loop, the loop removes the input and sends a Result to each
\* of its listeners, also when IsOurTx returns an error.
C36_SpendNeverLeavesInputPending ==
    [][\A outpoint \in DOMAIN pendingInputs, tx \in Confirmable,
         isOurTxOk \in BOOLEAN :
          CollectorSpend(outpoint, tx, isOurTxOk)
             => removedAndSignalled(outpoint)]_vars

\* what holds of the code: it is so whenever IsOurTx returns no error
SpendRemovesInputIfStoreAnswers ==
    [][\A outpoint \in DOMAIN pendingInputs, tx \in Confirmable :
          CollectorSpend(outpoint, tx, TRUE)
             => removedAndSignalled(outpoint)]_vars

(***************************************************************************)
(* Start, call after call.  The first call of a component wins the         *)
(* compare-and-swap on started and runs the rest of Start; every later     *)
(* call loses it and returns nil at once.                                  *)
(***************************************************************************)
MaxStartCalls == 2         \* Start calls per component

\* if !atomic.CompareAndSwapUint32(&r.started, 0, 1) { return nil }
startIsNoop(started_, loop) == started_

\* ChannelRouter.Start for a router whose started is set
RouterStartAgain ==
    /\ startIsNoop(routerStarted, networkHandler)
    /\ Len(startReturns["router"]) < MaxStartCalls
    /\ startReturns' = [startReturns EXCEPT !["router"] = Append(@, "nil")]
    /\ UNCHANGED <<sweeperVars, lifeVars, chainVars, gossipVars, payVars,
                   queryVars, callVars, classVars, stopVars, syncVars,
                   zombieVars>>

\* UtxoSweeper.Start for a sweeper whose started is set
SweeperStartAgain ==
    /\ startIsNoop(started, collector)
    /\ Len(startReturns["sweeper"]) < MaxStartCalls
    /\ startReturns' = [startReturns EXCEPT !["sweeper"] = Append(@, "nil")]
    /\ UNCHANGED <<sweeperVars, lifeVars, chainVars, gossipVars, payVars,
                   queryVars, callVars, classVars, stopVars, syncVars,
                   zombieVars>>

StartNext ==
    \/ \E startOk \in BOOLEAN : RouterStart(startOk)
    \/ RouterStartAgain
    \/ SweeperStart
    \/ SweeperStartAgain
    \/ \E chainViewStopOk \in BOOLEAN : RouterStop(chainViewStopOk)
    \/ HandlerQuit
    \/ SweeperStop
    \/ CollectorQuit

\* router and sweeper from New, with or without AssumeChannelValid
StartInit == StopInit

StartSpec == StartInit /\ [][StartNext]_vars

\* the goroutine of the component's loop has been launched
loopLaunched(component) ==
    IF component = "router" THEN networkHandler # "none"
    ELSE collector # "none"

\* C37: for the router and for the sweeper, whenever a Start call has
\* returned nil the goroutine of the loop has been launched, whatever Start
\* calls came before it, one that returned an error included.
C37_StartNilMeansLoopLaunched ==
    \A component \in Components :
        "nil" \in Range(startReturns[component]) => loopLaunched(component)

\* what holds of the code: the first Start call of a component returns nil
\* only with the loop launched
FirstStartNilMeansLoopLaunched ==
    \A component \in Components :
        /\ startReturns[component] # <<>>
        /\ Head(startReturns[component]) = "nil"
        => loopLaunched(component)

(***************************************************************************)
(* SweepInput for an outpoint that is pending already.                     *)
(***************************************************************************)
\* the fields of a pending input other than its listeners
withoutListeners(pendInput) ==
    [minPublishHeight |-> pendInput.minPublishHeight,
     publishAttempts  |-> pendInput.publishAttempts,
     feePreference    |-> pendInput.feePreference,
     lastFeeRate      |-> pendInput.lastFeeRate]

\* a SweepInput request for an outpoint that is pending is handled
AlreadyPendingReceived(outpoint) ==
    /\ outpoint \in DOMAIN pendingInputs
    /\ \E feePreference \in FeePreferences, waitForSpendOk \in BOOLEAN :
          SweepInput(outpoint, feePreference, waitForSpendOk)

\* C38: a SweepInput for an outpoint that is pending already appends the
\* result channel of the request to the listeners of the pending input and
\* changes nothing else of it: fee preference, publish attempts, minimum
\* publish height and last fee rate stay, the other pending inputs stay, no
\* spend notification is registered and no timer is started.
C38_AlreadyPendingOnlyGainsListener ==
    [][\A outpoint \in OutPoints :
          AlreadyPendingReceived(outpoint)
          => /\ DOMAIN pendingInputs' = DOMAIN pendingInputs
             /\ pendingInputs'[outpoint].listeners =
                   Append(pendingInputs[outpoint].listeners, Len(resultChans'))
             /\ withoutListeners(pendingInputs'[outpoint]) =
                   withoutListeners(pendingInputs[outpoint])
             /\ \A other \in DOMAIN pendingInputs \ {outpoint} :
                   pendingInputs'[other] = pendingInputs[other]
             /\ ntfnReg' = ntfnReg
             /\ timer' = timer
             /\ batchTimers' = batchTimers]_vars

\* an input that was published once and then offered again: two listeners,
\* one publish attempt, one spend registration
C38_Witness ==
    \E outpoint \in DOMAIN pendingInputs :
        /\ Len(pendingInputs[outpoint].listeners) = 2
        /\ pendingInputs[outpoint].publishAttempts = 1
        /\ ntfnReg = {outpoint}
        /\ resultChans = <<<<>>, <<>>>>

(***************************************************************************)
(* The channel update of a forwarding failure.                             *)
(***************************************************************************)
\* the update of the failure is written to the graph store: UpdateEdge has
\* handed it to the networkHandler and processUpdate stores the policy
FailureUpdateApplied(j) ==
    /\ classifier.pc = "UpdateEdge"
    /\ apiCalls[classifier.call].job = j
    /\ ProcessPolicyUpdate(j)
    /\ edgeTimestamps' # edgeTimestamps

\* C39: a channel update attached to a forwarding failure changes the stored
\* policy of no channel but the one of the failed edge that getFailedEdge
\* located for the failure; an update naming another channel id is not
\* applied to the graph.
C39_UpdateOnlyForFailedChannel ==
    [][\A j \in DOMAIN jobs :
          FailureUpdateApplied(j)
          => \A c \in GossipChannels :
                edgeTimestamps'[c] # edgeTimestamps[c]
                => c = classifier.failed.edge.channel]_vars

\* what holds of the code: the policy that changes is the one of the channel
\* and direction the update itself names
UpdateAppliedToNamedChannel ==
    [][\A j \in DOMAIN jobs :
          FailureUpdateApplied(j)
          => \A c \in GossipChannels, d \in Directions :
                edgeTimestamps'[c][d] # edgeTimestamps[c][d]
                => c = fwdError.update.chanID /\ d = fwdError.update.dir]_vars

(***************************************************************************)
(* signalAndRemove and the outpoints it is called for.                     *)
(***************************************************************************)
\* C40: signalAndRemove is called for pending outpoints only, from the
\* newInputs case after a failed spend registration, from the spend case
\* and from the retry cap of sweep: it never reads the fields of a missing
\* entry, also when the spending transaction or a later input set of the
\* batch names an outpoint that was removed before.
C40_SignalAndRemoveFindsInput == collector # "panic"

\* input 1 was spent by a remote transaction and removed; then the sweep of
\* inputs 1 and 2 confirmed, naming the removed input 1, and the collector
\* went on to signal input 2
C40_Witness ==
    /\ collector = "running"
    /\ pendingInputs = <<>>
    /\ \E c \in DOMAIN resultChans, d \in DOMAIN resultChans :
          /\ resultChans[c] =
                <<Result("RemoteSpend", [ins |-> {1}, by |-> "remote"])>>
          /\ resultChans[d] =
                <<Result("nil", createSweepTx({1, 2}, GenSweepScript,
                                              bestHeight, sweepFeeRate))>>
====
